---------------------------- MODULE Spec2Model ----------------------------
(***************************************************************************)
(* Share-of-Voice composite scoring engine: SoVCalculator                  *)
(* (src/sov_calculator.py), SentimentAnalyzer (src/sentiment_analyzer.py),  *)
(* CrossKeywordAnalyzer (src/cross_keyword_analyzer.py) and the            *)
(* orchestration of SoVAgent (src/sov_agent.py).                           *)
(*                                                                         *)
(* Python dicts are functions whose DOMAIN is the set of keys present.     *)
(* Text is a sequence of one-character strings.  Python floats are exact   *)
(* rationals <<n, d>> in lowest terms with d > 0, so a sum "equal to 100"  *)
(* here is a sum within floating-point tolerance of 100 in the program.    *)
(***************************************************************************)
EXTENDS Integers, Sequences, FiniteSets, TLC

VARIABLES
    pc,              \* position of the invocation being followed
    results,         \* argument `results` of a scorer called on its own
    platform,        \* argument `platform` of a scorer called on its own
    mentions,        \* return value of count_mentions
    engagement,      \* return value of calculate_engagement
    sentiment,       \* return value of analyze_sentiment
    dominance,       \* return value of calculate_ranking_dominance
    sov_metrics,     \* return value of calculate_sov_metrics
    search_results,  \* SoVAgent.run: platform -> result list
    platform_sov,    \* SoVAgent.run: return value of analyze_sov
    overall_sov,     \* SoVAgent.run: return value of calculate_overall_sov
    keyword_analysis,\* return value of analyze_keyword_performance
    gaps,            \* return value of identify_content_gaps
    earlier,         \* what an earlier invocation on the same objects returned
    config,          \* the config module the objects were constructed with
    google_searcher, \* the GoogleSearcher object and what its calls did
    web              \* what a search of each platform meets when it is made

vars == <<pc, results, platform, mentions, engagement, sentiment, dominance,
          sov_metrics, search_results, platform_sov, overall_sov,
          keyword_analysis, gaps, earlier, config, google_searcher, web>>

\* A variable that holds nothing yet (the call has not been made).
None == [none |-> TRUE]

-----------------------------------------------------------------------------
(* Bounds of the checked instances. *)

\* longest list of one keyword handed to calculate_ranking_dominance
MaxRank == 30
\* longest title enumerated character by character
MaxTextLen == 3
\* longest result list handed to a scorer or held by a platform
MaxResults == 2
\* most keywords in a keyword_sov handed to identify_content_gaps
MaxKeywords == 2

-----------------------------------------------------------------------------
(* Python helpers. *)

\* dict.get(key, default)
Get(d, key, default) == IF key \in DOMAIN d THEN d[key] ELSE default

\* the elements of a sequence
Range(s) == {s[i] : i \in DOMAIN s}

\* all sequences over S of length at most n
SeqsUpTo(S, n) == UNION {[1..k -> S] : k \in 0..n}

RECURSIVE SumOver(_, _)
\* sum(f[x] for x in S), integers
SumOver(f, S) ==
    IF S = {} THEN 0
    ELSE LET x == CHOOSE y \in S : TRUE IN f[x] + SumOver(f, S \ {x})

Abs(n) == IF n < 0 THEN -n ELSE n

RECURSIVE GCD(_, _)
GCD(a, b) == IF b = 0 THEN a ELSE GCD(b, a % b)

\* the float n/d, d # 0, as a rational in lowest terms
Rat(n, d) ==
    LET s == IF d < 0 THEN -1 ELSE 1
        g == GCD(Abs(n), Abs(d))
    IN  <<(s * n) \div g, (s * d) \div g>>

\* raised by Python on a division by zero
ZeroDivisionError == <<0, 0>>

RInt(n) == <<n, 1>>
\* a + b and a - b over the least common denominator
RAdd(a, b) ==
    LET g == GCD(a[2], b[2])
    IN  Rat(a[1] * (b[2] \div g) + b[1] * (a[2] \div g), (a[2] \div g) * b[2])
RSub(a, b) == RAdd(a, <<-b[1], b[2]>>)
RMul(a, b) == Rat(a[1] * b[1], a[2] * b[2])
\* a / b: raises on b = 0
RDiv(a, b) == IF b[1] = 0 THEN ZeroDivisionError ELSE Rat(a[1] * b[2], a[2] * b[1])
RLt(a, b) == a[1] * b[2] < b[1] * a[2]
RGt(a, b) == RLt(b, a)
RLe(a, b) == ~RLt(b, a)

RECURSIVE RSumOver(_, _)
\* sum(f[x] for x in S), floats
RSumOver(f, S) ==
    IF S = {} THEN RInt(0)
    ELSE LET x == CHOOSE y \in S : TRUE IN RAdd(f[x], RSumOver(f, S \ {x}))

-----------------------------------------------------------------------------
(* config.py.  The brand names of the checked configuration are short so  *)
(* that every text up to MaxTextLen can be enumerated: "Ab" stands for the *)
(* focal brand, "B" and "C" for two competitors; "B" spelled inside "Ab"   *)
(* is a brand name embedded in a longer word.                              *)

BRAND_NAME == "Ab"
COMPETITOR_BRANDS == <<"B", "C">>

\* the characters of a brand name
Spelling(brand) ==
    CASE brand = "Ab" -> <<"A", "b">>
      [] brand = "B"  -> <<"B">>
      [] brand = "C"  -> <<"C">>
      [] brand = "D"  -> <<"D">>

\* SOV_WEIGHTS
SOV_WEIGHTS ==
    [presence_score   |-> Rat(4, 10),
     engagement_score |-> Rat(3, 10),
     sentiment_score  |-> Rat(2, 10),
     dominance_score  |-> Rat(1, 10)]

\* SoVCalculator.__init__ / CrossKeywordAnalyzer.__init__: self.all_brands
all_brands == <<BRAND_NAME>> \o COMPETITOR_BRANDS

AllBrandSet == Range(all_brands)

\* PLATFORMS
PLATFORMS ==
    [youtube |-> TRUE, google |-> TRUE, twitter |-> FALSE, instagram |-> FALSE]

\* the config module as shipped
ShippedConfig ==
    [BRAND_NAME        |-> BRAND_NAME,
     COMPETITOR_BRANDS |-> COMPETITOR_BRANDS,
     PLATFORMS         |-> PLATFORMS]

\* SoVCalculator.__init__ / CrossKeywordAnalyzer.__init__ on any config:
\* self.all_brands = [config.BRAND_NAME] + config.COMPETITOR_BRANDS
AllBrandsOf(config_) == <<config_.BRAND_NAME>> \o config_.COMPETITOR_BRANDS

-----------------------------------------------------------------------------
(* Text and the regular expression  \b + re.escape(brand.lower()) + \b .   *)

\* str.lower() on one character
LowerChar(c) ==
    CASE c = "A" -> "a"
      [] c = "B" -> "b"
      [] c = "C" -> "c"
      [] c = "D" -> "d"
      [] OTHER   -> c

\* str.lower()
Lower(t) == [i \in DOMAIN t |-> LowerChar(t[i])]

\* \w of the re module
IsWordChar(c) == c \notin {" ", ".", ","}

\* whether position j of t holds a word character (outside t: no)
WordAt(t, j) == j \in DOMAIN t /\ IsWordChar(t[j])

\* \b between t[k] and t[k+1], k in 0..Len(t)
WordBoundary(t, k) == WordAt(t, k) # WordAt(t, k + 1)

\* MatchAt without the two \b: p matches as a substring
MatchAtSubstring(p, t, i) ==
    /\ i >= 1
    /\ i + Len(p) - 1 <= Len(t)
    /\ SubSeq(t, i, i + Len(p) - 1) = p

\* the pattern \b p \b matches t starting at position i
MatchAt(p, t, i) ==
    /\ i >= 1
    /\ i + Len(p) - 1 <= Len(t)
    /\ SubSeq(t, i, i + Len(p) - 1) = p
    /\ WordBoundary(t, i - 1)
    /\ WordBoundary(t, i + Len(p) - 1)

RECURSIVE FindAllFrom(_, _, _)
\* len(re.findall(pattern, text)): leftmost, non-overlapping matches from i on
FindAllFrom(p, t, i) ==
    IF i > Len(t) THEN 0
    ELSE IF MatchAt(p, t, i) THEN 1 + FindAllFrom(p, t, i + Len(p))
    ELSE FindAllFrom(p, t, i + 1)

\* len(re.findall(r'\b' + re.escape(brand.lower()) + r'\b', text))
FindAll(brand, text) == FindAllFrom(Lower(Spelling(brand)), text, 1)

\* re.search(r'\b' + re.escape(brand.lower()) + r'\b', text) is not None
Search(brand, text) ==
    \E i \in 1..Len(text) : MatchAt(Lower(Spelling(brand)), text, i)

\* brand.lower() in text   (substring test)
Contains(brand, text) ==
    LET p == Lower(Spelling(brand))
    IN  \E i \in 1..Len(text) :
            i + Len(p) - 1 <= Len(text) /\ SubSeq(text, i, i + Len(p) - 1) = p

\* f"{result.get('title', '')} {result.get('snippet', '')}"
TitleAndSnippet(result) ==
    Get(result, "title", <<>>) \o <<" ">> \o Get(result, "snippet", <<>>)


-----------------------------------------------------------------------------
(* SoVCalculator *)

\* Share with the factor 100 forgotten
ShareAsFraction(x, total) ==
    IF total = 0 THEN ZeroDivisionError ELSE Rat(x, total)

\* (x / total) * 100: raises when total = 0
Share(x, total) ==
    IF total = 0 THEN ZeroDivisionError ELSE Rat(x * 100, total)

\* NewCounter keeping the counts of the call before (a counter held by the
\* object instead of one made by the call)
KeptCounter(brand) ==
    IF mentions # None /\ brand \in DOMAIN mentions.raw_counts
    THEN mentions.raw_counts[brand] ELSE 0

\* line 22: mentions = defaultdict(int), made anew by every call
NewCounter(brand) == 0

RECURSIVE MentionCount(_, _, _)
\* count_mentions: mentions[brand] after the loop over results[1..n]
MentionCount(rs, brand, n) ==
    IF n = 0 THEN NewCounter(brand)
    ELSE MentionCount(rs, brand, n - 1)
         + FindAll(brand, Lower(TitleAndSnippet(rs[n])))

\* count_mentions without the test total_mentions > 0
count_mentions_unguarded(rs, pf) ==
    LET counts  == [b \in AllBrandSet |-> MentionCount(rs, b, Len(rs))]
        total_mentions == SumOver(counts, AllBrandSet)
    IN  [raw_counts     |-> IF Len(rs) = 0 THEN <<>> ELSE counts,
         total_mentions |-> total_mentions,
         percentages    |->
             [b \in AllBrandSet |-> Share(counts[b], total_mentions)]]

count_mentions(rs, pf) ==
    LET counts  == [b \in AllBrandSet |-> MentionCount(rs, b, Len(rs))]
        total_mentions == SumOver(counts, AllBrandSet)
        mention_percentages ==
            IF total_mentions > 0
            THEN [b \in AllBrandSet |-> Share(counts[b], total_mentions)]
            ELSE [b \in AllBrandSet |-> RInt(0)]
    IN  [raw_counts     |-> IF Len(rs) = 0 THEN <<>> ELSE counts,
         total_mentions |-> total_mentions,
         percentages    |-> mention_percentages]

\* _parse_views.  A value is [kind, n]: the string of the decimal digits of
\* n ("digits"), that string followed by K ("K") or M ("M"), a string that
\* is no number ("junk"), or the integer n itself, not a string ("int"),
\* on which .replace raises inside the try.
parse_views(v) ==
    CASE v.kind = "digits" -> v.n
      [] v.kind = "K"      -> v.n * 1000
      [] v.kind = "M"      -> v.n * 1000000
      [] OTHER             -> 0

Digits(n) == [kind |-> "digits", n |-> n]

\* the integer n itself (not a string)
Number(n) == [kind |-> "int", n |-> n]

\* raised by + and * on a str operand (lines 78 and 91)
TypeError == [raised |-> "TypeError"]

Min(a, b) == IF a < b THEN a ELSE b
Max(a, b) == IF a > b THEN a ELSE b

\* lines 74, 78 and 91: comment_count is used as it is found in the result,
\* so (likes + comments) / views and (comments * 50) * 0.2 raise on a string
RaisesTypeError(result, pf) ==
    /\ pf = "youtube"
    /\ Get(result, "comment_count", Number(0)).kind # "int"

\* ResultMetrics reading the fields of the result on every platform
ResultMetricsEverywhere(result, pf) ==
    LET views    == parse_views(Get(result, "views", Digits(0)))
        likes    == parse_views(Get(result, "likes", Digits(0)))
        comments == Get(result, "comment_count", Number(0)).n
        engagement_rate ==
            IF views > 0 THEN Rat(likes + comments, views) ELSE RInt(0)
        age_days == Get(result, "age_days", 30)
    IN  [views |-> views, likes |-> likes, comments |-> comments,
         normalized_rate |->
             IF age_days > 0
             THEN RMul(engagement_rate, Rat(30, Min(age_days, 365)))
             ELSE engagement_rate]

\* calculate_engagement, lines 70-98: the metrics of one result
ResultMetrics(result, pf) ==
    IF pf = "youtube"
    THEN LET views    == parse_views(Get(result, "views", Digits(0)))
             likes    == parse_views(Get(result, "likes", Digits(0)))
             comments == Get(result, "comment_count", Number(0)).n
             engagement_rate ==
                 IF views > 0 THEN Rat(likes + comments, views) ELSE RInt(0)
             age_days == Get(result, "age_days", 30)
         IN  [views |-> views, likes |-> likes, comments |-> comments,
              normalized_rate |->
                  IF age_days > 0
                  THEN RMul(engagement_rate, Rat(30, Min(age_days, 365)))
                  ELSE engagement_rate]
    ELSE [views |-> 100, likes |-> 10, comments |-> 5,
          normalized_rate |-> Rat(1, 10)]

\* MentioningResults giving a result to one brand only: the first brand
\* of all_brands that its text names
MentioningResultsFirstBrand(rs, brand) ==
    {i \in DOMAIN rs :
        /\ Search(brand, Lower(TitleAndSnippet(rs[i])))
        /\ \A k \in DOMAIN all_brands :
              Search(all_brands[k], Lower(TitleAndSnippet(rs[i])))
                  => \E j \in 1..k : all_brands[j] = brand}

\* the indices of the results whose text names the brand as a whole word
MentioningResults(rs, brand) ==
    {i \in DOMAIN rs : Search(brand, Lower(TitleAndSnippet(rs[i])))}

calculate_engagement(rs, pf) ==
    LET m == [i \in DOMAIN rs |-> ResultMetrics(rs[i], pf)]
        mentioned == {b \in AllBrandSet : MentioningResults(rs, b) # {}}
        acc == [b \in AllBrandSet |->
                  LET I == MentioningResults(rs, b)
                  IN [count          |-> Cardinality(I),
                      total_views    |-> SumOver([i \in I |-> m[i].views], I),
                      total_likes    |-> SumOver([i \in I |-> m[i].likes], I),
                      total_comments |-> SumOver([i \in I |-> m[i].comments], I),
                      engagement_rate |->
                          RSumOver([i \in I |-> m[i].normalized_rate], I)]]
        total_engagement ==
            SumOver([b \in mentioned |-> acc[b].total_views], mentioned)
        \* reading engagement[brand] at line 117 adds the key to the defaultdict
        keys == IF total_engagement > 0 THEN AllBrandSet ELSE mentioned
    IN  IF \E i \in DOMAIN rs : RaisesTypeError(rs[i], pf) THEN TypeError ELSE
        [raw_engagement |->
             [b \in keys |-> [views    |-> acc[b].total_views,
                              likes    |-> acc[b].total_likes,
                              comments |-> acc[b].total_comments]],
         total_engagement |-> total_engagement,
         percentages |->
             IF total_engagement > 0
             THEN [b \in AllBrandSet |-> Share(acc[b].total_views, total_engagement)]
             ELSE [b \in AllBrandSet |-> RInt(0)],
         avg_engagement_rates |->
             IF total_engagement > 0
             THEN [b \in AllBrandSet |->
                      IF acc[b].count > 0
                      THEN RDiv(acc[b].engagement_rate, RInt(acc[b].count))
                      ELSE RInt(0)]
             ELSE [b \in AllBrandSet |-> RInt(0)]]

\* position_score without the floor max(0, ...)
position_score_unfloored(position) == 100 - (position - 1) * 5

\* max(0, 100 - (position - 1) * 5)
position_score(position) == Max(0, 100 - (position - 1) * 5)

calculate_ranking_dominance(rs, pf) ==
    LET mentioned == {b \in AllBrandSet : MentioningResults(rs, b) # {}}
        scores == [b \in AllBrandSet |->
                     LET I == MentioningResults(rs, b)
                     IN  SumOver([i \in I |-> position_score(i)], I)]
        total_dominance == SumOver(scores, mentioned)
        \* reading dominance_scores[brand] at line 179 adds the key
        keys == IF total_dominance > 0 THEN AllBrandSet ELSE mentioned
    IN  [raw_scores      |-> [b \in keys |-> scores[b]],
         total_dominance |-> total_dominance,
         percentages |->
             IF total_dominance > 0
             THEN [b \in AllBrandSet |-> Share(scores[b], total_dominance)]
             ELSE [b \in AllBrandSet |-> RInt(0)]]

\* WeightedSum with the presence and engagement weights exchanged
WeightedSumSwapped(presence_pct, engagement_pct, sentiment_pct, dominance_pct) ==
    RAdd(RAdd(RAdd(RMul(presence_pct, SOV_WEIGHTS.engagement_score),
                   RMul(engagement_pct, SOV_WEIGHTS.presence_score)),
              RMul(sentiment_pct, SOV_WEIGHTS.sentiment_score)),
         RMul(dominance_pct, SOV_WEIGHTS.dominance_score))

\* WeightedSum without the dominance term
WeightedSumNoDominance(presence_pct, engagement_pct, sentiment_pct, dominance_pct) ==
    RAdd(RAdd(RMul(presence_pct, SOV_WEIGHTS.presence_score),
              RMul(engagement_pct, SOV_WEIGHTS.engagement_score)),
         RMul(sentiment_pct, SOV_WEIGHTS.sentiment_score))

\* the weighted sum of lines 209-214
WeightedSum(presence_pct, engagement_pct, sentiment_pct, dominance_pct) ==
    RAdd(RAdd(RAdd(RMul(presence_pct, SOV_WEIGHTS.presence_score),
                   RMul(engagement_pct, SOV_WEIGHTS.engagement_score)),
              RMul(sentiment_pct, SOV_WEIGHTS.sentiment_score)),
         RMul(dominance_pct, SOV_WEIGHTS.dominance_score))

\* dominance is None, or a dict
calculate_sov_metrics(mentions_, engagement_, sentiment_, dominance_) ==
    LET presence_sov   == Get(mentions_, "percentages", <<>>)
        engagement_sov == Get(engagement_, "percentages", <<>>)
        sentiment_sov  == Get(sentiment_, "positive_sov", <<>>)
        dominance_sov  ==
            IF dominance_ # None /\ DOMAIN dominance_ # {}
            THEN Get(dominance_, "percentages", <<>>) ELSE <<>>
    IN  [presence_sov   |-> presence_sov,
         engagement_sov |-> engagement_sov,
         sentiment_sov  |-> sentiment_sov,
         dominance_sov  |-> dominance_sov,
         weighted_sov   |->
             [b \in AllBrandSet |->
                 WeightedSum(Get(presence_sov, b, RInt(0)),
                             Get(engagement_sov, b, RInt(0)),
                             Get(sentiment_sov, b, RInt(0)),
                             IF DOMAIN dominance_sov # {}
                             THEN Get(dominance_sov, b, RInt(0)) ELSE RInt(0))],
         formula_weights |-> SOV_WEIGHTS]

\* calculate_overall_sov without the division by platform_count
calculate_overall_sov_total(platform_sov_) ==
    LET platform_count == Cardinality(DOMAIN platform_sov_)
        weighted(p) ==
            Get(Get(platform_sov_[p], "sov_metrics", <<>>), "weighted_sov", <<>>)
        total_weighted_sov(b) ==
            LET P == {p \in DOMAIN platform_sov_ : b \in DOMAIN weighted(p)}
            IN  RSumOver([p \in P |-> weighted(p)[b]], P)
    IN  IF platform_count = 0 THEN <<>>
        ELSE [sov_percentage |->
                  [b \in AllBrandSet |-> total_weighted_sov(b)],
              platforms_analyzed |-> DOMAIN platform_sov_,
              platform_count |-> platform_count]

calculate_overall_sov(platform_sov_) ==
    LET platform_count == Cardinality(DOMAIN platform_sov_)
        weighted(p) ==
            Get(Get(platform_sov_[p], "sov_metrics", <<>>), "weighted_sov", <<>>)
        total_weighted_sov(b) ==
            LET P == {p \in DOMAIN platform_sov_ : b \in DOMAIN weighted(p)}
            IN  RSumOver([p \in P |-> weighted(p)[b]], P)
    IN  IF platform_count = 0 THEN <<>>
        ELSE [sov_percentage |->
                  [b \in AllBrandSet |->
                      RDiv(total_weighted_sov(b), RInt(platform_count))],
              platforms_analyzed |-> DOMAIN platform_sov_,
              platform_count |-> platform_count]

-----------------------------------------------------------------------------
(* SentimentAnalyzer *)

\* the brand list written into analyze_sentiment (line 39); it spells out
\* the brands of the configuration
SENTIMENT_BRANDS == <<"Ab", "B", "C">>

\* comments[:50]
MAX_SENTIMENT_COMMENTS == 50

\* a mention is positive above this combined score: 0.6
POSITIVE_THRESHOLD == Rat(6, 10)

RECURSIVE JoinWithSpace(_)
\* " ".join(comments)
JoinWithSpace(cs) ==
    IF Len(cs) = 0 THEN <<>>
    ELSE IF Len(cs) = 1 THEN cs[1]
    ELSE cs[1] \o <<" ">> \o JoinWithSpace(Tail(cs))

\* SentimentText without the slice [:50]: all comments are joined
SentimentTextAllComments(result) ==
    LET comments == Get(result, "comments", <<>>)
    IN  IF Len(comments) > 0
        THEN TitleAndSnippet(result) \o <<" ">> \o JoinWithSpace(comments)
        ELSE TitleAndSnippet(result)

\* lines 22-28: title, snippet and the first 50 comments
SentimentText(result) ==
    LET comments == Get(result, "comments", <<>>)
    IN  IF Len(comments) > 0
        THEN TitleAndSnippet(result) \o <<" ">>
             \o JoinWithSpace(SubSeq(comments, 1,
                                     Min(Len(comments), MAX_SENTIMENT_COMMENTS)))
        ELSE TitleAndSnippet(result)

\* CombinedScore without the normalisation to [0, 1]
CombinedScoreCompound(result) == Get(result, "compound", RInt(0))

\* line 35: (compound + 1) / 2, where compound in [-1, 1] is what the VADER
\* library answers for the text of the result (carried by the result here)
CombinedScore(result) ==
    RDiv(RAdd(Get(result, "compound", RInt(0)), RInt(1)), RInt(2))

RECURSIVE BrandScores(_, _, _)
\* brand_sentiments[brand] after the loop over results[1..n]
BrandScores(rs, brand, n) ==
    IF n = 0 THEN <<>>
    ELSE LET before == BrandScores(rs, brand, n - 1)
         IN  IF Search(brand, Lower(SentimentText(rs[n])))
             THEN Append(before, CombinedScore(rs[n]))
             ELSE before

\* IsPositive with >= for > (a score of exactly 0.6 counted positive)
IsPositiveFrom06(s) == RLe(POSITIVE_THRESHOLD, s)

\* line 52: s > 0.6
IsPositive(s) == RGt(s, POSITIVE_THRESHOLD)

\* PositiveSov without the test total_positive_mentions > 0
PositiveSovUnguarded(positive_count, keys, total_positive_mentions) ==
    [b \in keys |-> Share(positive_count[b], total_positive_mentions)]

\* lines 70-76: the share of positive voice of the brands of sentiment_stats
PositiveSov(positive_count, keys, total_positive_mentions) ==
    IF total_positive_mentions > 0
    THEN [b \in keys |-> Share(positive_count[b], total_positive_mentions)]
    ELSE [b \in keys |-> RInt(0)]

analyze_sentiment(rs, pf) ==
    LET scores == [b \in Range(SENTIMENT_BRANDS) |-> BrandScores(rs, b, Len(rs))]
        \* the keys of the defaultdict brand_sentiments: the brands appended to
        keys == {b \in Range(SENTIMENT_BRANDS) : Len(scores[b]) > 0}
        positive_count ==
            [b \in keys |->
                Cardinality({i \in DOMAIN scores[b] : IsPositive(scores[b][i])})]
        sentiment_stats ==
            [b \in keys |->
                IF Len(scores[b]) > 0
                THEN [average_sentiment |->
                          RDiv(RSumOver(scores[b], DOMAIN scores[b]),
                               RInt(Len(scores[b]))),
                      positive_count |-> positive_count[b],
                      total_mentions |-> Len(scores[b]),
                      positive_ratio |->
                          Rat(positive_count[b], Len(scores[b]))]
                ELSE [average_sentiment |-> Rat(1, 2),
                      positive_count |-> 0,
                      total_mentions |-> 0,
                      positive_ratio |-> RInt(0)]]
        total_positive_mentions == SumOver(positive_count, keys)
    IN  [sentiment_stats |-> sentiment_stats,
         positive_sov |-> PositiveSov(positive_count, keys, total_positive_mentions),
         total_positive_mentions |-> total_positive_mentions]

-----------------------------------------------------------------------------
(* CrossKeywordAnalyzer *)

\* the order in which search_platforms inserts the platforms (lines 71, 82)
PlatformOrder == <<"google", "youtube">>

RECURSIVE AllResultsFrom(_, _)
\* the results in the order of "for platform, results in platform_data.items()"
AllResultsFrom(platform_data, n) ==
    IF n = 0 THEN <<>>
    ELSE AllResultsFrom(platform_data, n - 1)
         \o (IF PlatformOrder[n] \in DOMAIN platform_data
             THEN platform_data[PlatformOrder[n]] ELSE <<>>)

\* result.get("keyword", "unknown")
KeywordOf(result) == Get(result, "keyword", "unknown")

\* line 35: the brand counts toward the keyword of this result
Attributed(brand, result) == Contains(brand, Lower(TitleAndSnippet(result)))

RECURSIVE KeywordsInOrder(_, _)
\* the keys of keyword_performance in insertion order: a keyword is inserted
\* by the first result of it that is attributed to some brand
KeywordsInOrder(all, n) ==
    IF n = 0 THEN <<>>
    ELSE LET before == KeywordsInOrder(all, n - 1)
             k == KeywordOf(all[n])
         IN  IF /\ \E b \in AllBrandSet : Attributed(b, all[n])
                /\ k \notin Range(before)
             THEN Append(before, k) ELSE before

\* a dict in insertion order is a sequence of [keyword, ...] entries; every
\* keyword of keyword_performance was inserted by a count, so the test
\* total > 0 of line 41 holds for each and reading brand_counts[brand] at
\* line 43 gives every tracked brand a count
analyze_keyword_performance(platform_data) ==
    LET all == AllResultsFrom(platform_data, Len(PlatformOrder))
        order == KeywordsInOrder(all, Len(all))
        brand_counts(k) ==
            [b \in AllBrandSet |->
                Cardinality({i \in DOMAIN all :
                                KeywordOf(all[i]) = k /\ Attributed(b, all[i])})]
        total(k) == SumOver(brand_counts(k), AllBrandSet)
    IN  [keyword_performance |->
             [i \in DOMAIN order |->
                 [keyword |-> order[i], counts |-> brand_counts(order[i])]],
         keyword_sov |->
             [i \in DOMAIN order |->
                 [keyword |-> order[i],
                  sovs |-> [b \in AllBrandSet |->
                               Share(brand_counts(order[i])[b], total(order[i]))]]]]

RECURSIVE TopCompetitorLast(_, _)
\* TopCompetitorFrom keeping the last of the largest (>= for >)
TopCompetitorLast(brand_sovs, n) ==
    LET comp == COMPETITOR_BRANDS[n]
        here == <<comp, Get(brand_sovs, comp, RInt(0))>>
    IN  IF n = 1 THEN here
        ELSE LET best == TopCompetitorLast(brand_sovs, n - 1)
             IN  IF RLe(best[2], here[2]) THEN here ELSE best

RECURSIVE TopCompetitorFrom(_, _)
\* max(competitor_sovs.items(), key=lambda x: x[1]) over the competitors
\* 1..n: the first of the largest
TopCompetitorFrom(brand_sovs, n) ==
    LET comp == COMPETITOR_BRANDS[n]
        here == <<comp, Get(brand_sovs, comp, RInt(0))>>
    IN  IF n = 1 THEN here
        ELSE LET best == TopCompetitorFrom(brand_sovs, n - 1)
             IN  IF RGt(here[2], best[2]) THEN here ELSE best

\* GapRecords flagging a lead of 10 points or more (>= for >)
GapRecordsAtLeast10(keyword, brand_sovs) ==
    LET brand_sov == Get(brand_sovs, BRAND_NAME, RInt(0))
    IN  IF Len(COMPETITOR_BRANDS) = 0 THEN <<>>
        ELSE LET top_competitor ==
                     TopCompetitorFrom(brand_sovs, Len(COMPETITOR_BRANDS))
                 competitor_sov == top_competitor[2]
             IN  IF RLe(RAdd(brand_sov, RInt(10)), competitor_sov)
                 THEN << [keyword        |-> keyword,
                          atomberg_sov   |-> brand_sov,
                          top_competitor |-> top_competitor[1],
                          competitor_sov |-> competitor_sov,
                          gap            |-> RSub(competitor_sov, brand_sov),
                          opportunity    |->
                              IF RGt(RSub(competitor_sov, brand_sov), RInt(20))
                              THEN "high" ELSE "medium"] >>
                 ELSE <<>>

\* GapRecords calling a gap of 20 points or more high (>= for >)
GapRecordsHighFrom20(keyword, brand_sovs) ==
    LET brand_sov == Get(brand_sovs, BRAND_NAME, RInt(0))
    IN  IF Len(COMPETITOR_BRANDS) = 0 THEN <<>>
        ELSE LET top_competitor ==
                     TopCompetitorFrom(brand_sovs, Len(COMPETITOR_BRANDS))
                 competitor_sov == top_competitor[2]
             IN  IF RGt(competitor_sov, RAdd(brand_sov, RInt(10)))
                 THEN << [keyword        |-> keyword,
                          atomberg_sov   |-> brand_sov,
                          top_competitor |-> top_competitor[1],
                          competitor_sov |-> competitor_sov,
                          gap            |-> RSub(competitor_sov, brand_sov),
                          opportunity    |->
                              IF RLe(RInt(20), RSub(competitor_sov, brand_sov))
                              THEN "high" ELSE "medium"] >>
                 ELSE <<>>

\* lines 58-78: the records appended for one keyword (none or one)
GapRecords(keyword, brand_sovs) ==
    LET brand_sov == Get(brand_sovs, BRAND_NAME, RInt(0))
    IN  IF Len(COMPETITOR_BRANDS) = 0 THEN <<>>
        ELSE LET top_competitor ==
                     TopCompetitorFrom(brand_sovs, Len(COMPETITOR_BRANDS))
                 competitor_sov == top_competitor[2]
             IN  IF RGt(competitor_sov, RAdd(brand_sov, RInt(10)))
                 THEN << [keyword        |-> keyword,
                          atomberg_sov   |-> brand_sov,
                          top_competitor |-> top_competitor[1],
                          competitor_sov |-> competitor_sov,
                          gap            |-> RSub(competitor_sov, brand_sov),
                          opportunity    |->
                              IF RGt(RSub(competitor_sov, brand_sov), RInt(20))
                              THEN "high" ELSE "medium"] >>
                 ELSE <<>>

RECURSIVE InsertByGap(_, _)
\* where a stable descending sort puts g among the sorted records before it
InsertByGap(sorted, g) ==
    IF Len(sorted) = 0 THEN <<g>>
    ELSE IF RGt(g.gap, sorted[Len(sorted)].gap)
         THEN Append(InsertByGap(SubSeq(sorted, 1, Len(sorted) - 1), g),
                     sorted[Len(sorted)])
         ELSE Append(sorted, g)

\* SortByGap with the call of sort left out
Unsorted(gs) == gs

RECURSIVE SortByGap(_)
\* gaps.sort(key=lambda x: x["gap"], reverse=True)
SortByGap(gs) ==
    IF Len(gs) = 0 THEN <<>>
    ELSE InsertByGap(SortByGap(SubSeq(gs, 1, Len(gs) - 1)), gs[Len(gs)])

RECURSIVE GapsFound(_, _)
\* the list gaps after the loop over the first n keywords
GapsFound(keyword_sov, n) ==
    IF n = 0 THEN <<>>
    ELSE GapsFound(keyword_sov, n - 1)
         \o GapRecords(keyword_sov[n].keyword, keyword_sov[n].sovs)

identify_content_gaps(keyword_analysis_) ==
    LET keyword_sov == Get(keyword_analysis_, "keyword_sov", <<>>)
    IN  SortByGap(GapsFound(keyword_sov, Len(keyword_sov)))

-----------------------------------------------------------------------------
(* SoVAgent *)

\* the platforms search_platforms has code for, in the order it asks them
SearchedPlatforms == <<"google", "youtube">>

\* self.config.PLATFORMS.get(p, False)
Enabled(config_, p) == Get(config_.PLATFORMS, p, FALSE)

\* search_platforms in which a failure of the Google search ends the
\* method: YouTube is not searched any more
search_platforms_stop_at_failure(config_, web_) ==
    LET asked == {p \in Range(SearchedPlatforms) :
                    /\ Enabled(config_, p)
                    /\ (p = "youtube" /\ Enabled(config_, "google"))
                          => ~web_["google"].raises}
    IN  [p \in asked |-> IF web_[p].raises THEN <<>> ELSE web_[p].found]

\* search_platforms, lines 64-92.  web_[p] is what search_all_keywords of
\* the searcher of platform p does when called: it raises, or it returns
\* the list found.  Each enabled platform is asked inside its own try; the
\* except clause stores the empty list.
search_platforms(config_, web_) ==
    LET asked == {p \in Range(SearchedPlatforms) : Enabled(config_, p)}
    IN  [p \in asked |-> IF web_[p].raises THEN <<>> ELSE web_[p].found]

\* lines 107-129: what analyze_sov stores for one platform
AnalyzePlatform(rs, pf) ==
    LET m == count_mentions(rs, pf)
        e == calculate_engagement(rs, pf)
        s == analyze_sentiment(rs, pf)
        d == calculate_ranking_dominance(rs, pf)
    IN  [mentions    |-> m,
         engagement  |-> e,
         sentiment   |-> s,
         dominance   |-> d,
         sov_metrics |-> calculate_sov_metrics(m, e, s, d)]

\* analyze_sov without "if not results: continue"
analyze_sov_no_skip(search_results_) ==
    IF \E p \in DOMAIN search_results_ :
           calculate_engagement(search_results_[p], p) = TypeError
    THEN TypeError
    ELSE [p \in DOMAIN search_results_ |-> AnalyzePlatform(search_results_[p], p)]

\* analyze_sov: a platform whose result list is empty is skipped; what a
\* scorer raises is not caught
analyze_sov(search_results_) ==
    LET analysed == {p \in DOMAIN search_results_ : Len(search_results_[p]) > 0}
    IN  IF \E p \in analysed :
               calculate_engagement(search_results_[p], p) = TypeError
        THEN TypeError
        ELSE [p \in analysed |-> AnalyzePlatform(search_results_[p], p)]

-----------------------------------------------------------------------------
(* Inputs of the checked instances. *)

\* "A"/"a": the two cases of a letter; "b": a second letter, the lower-case
\* spelling of brand "B" and the end of brand "Ab"; " ": a separator
Alphabet == {"A", "a", "b", " "}

\* every text of at most MaxTextLen characters
Texts == SeqsUpTo(Alphabet, MaxTextLen)

SnippetPool == {<<>>, <<"A", "b">>, <<"b">>}

\* one result whose title (or snippet) is any text; either may be missing
EnumeratedResults ==
    {[title |-> t] : t \in Texts}
    \cup {[snippet |-> t] : t \in Texts}
    \cup {[title |-> t, snippet |-> sn] : t \in Texts, sn \in SnippetPool}

\* results as the searchers build them (search_engines.py, lines 55-62 and
\* 217-234): the brands named, the keyword, the metrics and the library's
\* compound score all vary
ResultPool ==
    { [title |-> <<"A", "b">>, snippet |-> <<"x">>, keyword |-> "k1",
       views |-> Digits(10), likes |-> Digits(1), comment_count |-> Number(2),
       age_days |-> 30, comments |-> <<>>, compound |-> Rat(2, 5)],
      [title |-> <<"b", " ", "c">>, keyword |-> "k1",
       views |-> Digits(30), likes |-> Digits(3), comment_count |-> Number(0),
       age_days |-> 60, comments |-> <<>>, compound |-> Rat(1, 5)],
      [title |-> <<"a", "b", "b">>, snippet |-> <<"C">>, keyword |-> "k2",
       views |-> [kind |-> "junk", n |-> 0], likes |-> Digits(0),
       comment_count |-> Number(1), age_days |-> 0, comments |-> <<>>,
       compound |-> Rat(3, 5)],
      [title |-> <<"x">>, snippet |-> <<>>, keyword |-> "k2",
       views |-> [kind |-> "int", n |-> 5], likes |-> [kind |-> "int", n |-> 1],
       comments |-> << <<"a", "b">>, <<"o", "k">> >>, compound |-> RInt(0)],
      [title |-> <<"B", " ", "b">>, snippet |-> <<"b", ".">>,
       views |-> [kind |-> "K", n |-> 2], compound |-> Rat(4, 5)] }

\* the result lists handed to a scorer
ResultLists ==
    {<<>>}
    \cup {<<r>> : r \in EnumeratedResults}
    \cup UNION {[1..k -> ResultPool] : k \in 1..MaxResults}

\* "twitter" stands for any tag that is not "youtube"
PlatformTags == {"youtube", "google", "twitter"}

\* the results the platforms of a run hold: one naming the focal brand, one
\* naming the two competitors, one in which "Ab" and "B" are only parts of
\* the longer word "abb", under another keyword
RunPool ==
    {r \in ResultPool : r.title \in {<<"A", "b">>, <<"b", " ", "c">>, <<"a", "b", "b">>}}

\* platform -> result list, as search_platforms returns it: a disabled
\* platform has no key, a failed search leaves the empty list
SearchResults ==
    UNION {[D -> SeqsUpTo(RunPool, MaxResults)] : D \in SUBSET Range(PlatformOrder)}

\* the shares of the focal brand handed to calculate_sov_metrics
CombinerShares == {0, 10, 20, 50, 80, 100}

\* a percentage map: the focal brand's share is any of CombinerShares or the
\* brand is missing; competitor "B" has a share, competitor "C" is missing
CombinerMaps ==
    {[b \in {"B"} |-> RInt(50)]}
    \cup {[b \in {BRAND_NAME, "B"} |->
              IF b = BRAND_NAME THEN RInt(v) ELSE RInt(50)] : v \in CombinerShares}

\* the shares of one keyword handed to identify_content_gaps: the focal
\* brand at 30 or missing, the competitors around the thresholds 10 and 20
GapSovs ==
    {[b \in {"B", "C"} |-> IF b = "B" THEN RInt(vb) ELSE RInt(vc)] :
        vb \in {40, 45, 50, 55}, vc \in {0, 55}}
    \cup {[b \in AllBrandSet |->
              IF b = BRAND_NAME THEN RInt(30)
              ELSE IF b = "B" THEN RInt(vb) ELSE RInt(vc)] :
            vb \in {0, 40, 45, 50, 55}, vc \in {0, 55}}
    \cup {[b \in {BRAND_NAME} |-> RInt(30)]}

KeywordNames == <<"k1", "k2", "k3", "k4">>

\* a keyword_sov of at most MaxKeywords keywords, in insertion order
KeywordSovs ==
    UNION {{[i \in 1..n |-> [keyword |-> KeywordNames[i], sovs |-> f[i]]] :
               f \in [1..n -> GapSovs]} : n \in 0..MaxKeywords}

-----------------------------------------------------------------------------
(* The scorers called one after the other on one result list, in the order *)
(* of analyze_sov (lines 107-121).                                         *)

InitScorers ==
    /\ pc = "count_mentions"
    /\ results \in ResultLists
    /\ platform \in PlatformTags
    /\ mentions = None /\ engagement = None /\ sentiment = None
    /\ dominance = None /\ sov_metrics = None
    /\ search_results = None /\ platform_sov = None /\ overall_sov = None
    /\ keyword_analysis = None /\ gaps = None /\ earlier = None
    /\ config = ShippedConfig /\ google_searcher = None /\ web = None

CountMentions ==
    /\ pc = "count_mentions"
    /\ mentions' = count_mentions(results, platform)
    /\ pc' = "calculate_engagement"
    /\ UNCHANGED <<config, google_searcher, web, earlier,
                 results, platform, engagement, sentiment, dominance,
                   sov_metrics, search_results, platform_sov, overall_sov,
                   keyword_analysis, gaps>>

CalculateEngagement ==
    /\ pc = "calculate_engagement"
    /\ engagement' = calculate_engagement(results, platform)
    /\ pc' = IF engagement' = TypeError THEN "raised" ELSE "analyze_sentiment"
    /\ UNCHANGED <<config, google_searcher, web, earlier,
                 results, platform, mentions, sentiment, dominance,
                   sov_metrics, search_results, platform_sov, overall_sov,
                   keyword_analysis, gaps>>

AnalyzeSentiment ==
    /\ pc = "analyze_sentiment"
    /\ sentiment' = analyze_sentiment(results, platform)
    /\ pc' = "calculate_ranking_dominance"
    /\ UNCHANGED <<config, google_searcher, web, earlier,
                 results, platform, mentions, engagement, dominance,
                   sov_metrics, search_results, platform_sov, overall_sov,
                   keyword_analysis, gaps>>

CalculateRankingDominance ==
    /\ pc = "calculate_ranking_dominance"
    /\ dominance' = calculate_ranking_dominance(results, platform)
    /\ pc' = "calculate_sov_metrics"
    /\ UNCHANGED <<config, google_searcher, web, earlier,
                 results, platform, mentions, engagement, sentiment,
                   sov_metrics, search_results, platform_sov, overall_sov,
                   keyword_analysis, gaps>>

CalculateSovMetrics ==
    /\ pc = "calculate_sov_metrics"
    /\ sov_metrics' = calculate_sov_metrics(mentions, engagement, sentiment, dominance)
    /\ pc' = "done"
    /\ UNCHANGED <<config, google_searcher, web, earlier,
                 results, platform, mentions, engagement, sentiment,
                   dominance, search_results, platform_sov, overall_sov,
                   keyword_analysis, gaps>>

NextScorers ==
    \/ CountMentions
    \/ CalculateEngagement
    \/ AnalyzeSentiment
    \/ CalculateRankingDominance
    \/ CalculateSovMetrics

SpecScorers == InitScorers /\ [][NextScorers]_vars

-----------------------------------------------------------------------------
(* calculate_sov_metrics called on four given maps. *)

InitCombiner ==
    /\ pc = "calculate_sov_metrics"
    /\ results = None /\ platform = None
    /\ mentions \in {[percentages |-> m] : m \in CombinerMaps}
    /\ engagement \in {[percentages |-> m] : m \in CombinerMaps}
    /\ sentiment \in {[positive_sov |-> m] : m \in CombinerMaps}
    /\ dominance \in {[percentages |-> m] : m \in CombinerMaps}
                     \cup {None, <<>>, [percentages |-> <<>>]}
    /\ sov_metrics = None
    /\ search_results = None /\ platform_sov = None /\ overall_sov = None
    /\ keyword_analysis = None /\ gaps = None /\ earlier = None
    /\ config = ShippedConfig /\ google_searcher = None /\ web = None

NextCombiner == CalculateSovMetrics

SpecCombiner == InitCombiner /\ [][NextCombiner]_vars

-----------------------------------------------------------------------------
(* SoVAgent.run, steps 2 to 4 (lines 165-174), on what search_platforms    *)
(* returned.                                                               *)

Init ==
    /\ pc = "analyze_sov"
    /\ search_results \in SearchResults
    /\ results = None /\ platform = None
    /\ mentions = None /\ engagement = None /\ sentiment = None
    /\ dominance = None /\ sov_metrics = None
    /\ platform_sov = None /\ overall_sov = None
    /\ keyword_analysis = None /\ gaps = None /\ earlier = None
    /\ config = ShippedConfig /\ google_searcher = None /\ web = None

AnalyzeSov ==
    /\ pc = "analyze_sov"
    /\ platform_sov' = analyze_sov(search_results)
    /\ pc' = IF platform_sov' = TypeError THEN "raised" ELSE "calculate_overall_sov"
    /\ UNCHANGED <<config, google_searcher, web, earlier,
                 results, platform, mentions, engagement, sentiment,
                   dominance, sov_metrics, search_results, overall_sov,
                   keyword_analysis, gaps>>

CalculateOverallSov ==
    /\ pc = "calculate_overall_sov"
    /\ overall_sov' = calculate_overall_sov(platform_sov)
    /\ pc' = "analyze_keyword_performance"
    /\ UNCHANGED <<config, google_searcher, web, earlier,
                 results, platform, mentions, engagement, sentiment,
                   dominance, sov_metrics, search_results, platform_sov,
                   keyword_analysis, gaps>>

\* generate_cross_keyword_insights, line 151
AnalyzeKeywordPerformance ==
    /\ pc = "analyze_keyword_performance"
    /\ keyword_analysis' = analyze_keyword_performance(search_results)
    /\ pc' = "identify_content_gaps"
    /\ UNCHANGED <<config, google_searcher, web, earlier,
                 results, platform, mentions, engagement, sentiment,
                   dominance, sov_metrics, search_results, platform_sov,
                   overall_sov, gaps>>

\* generate_cross_keyword_insights, line 152
IdentifyContentGaps ==
    /\ pc = "identify_content_gaps"
    /\ gaps' = identify_content_gaps(keyword_analysis)
    /\ pc' = "done"
    /\ UNCHANGED <<config, google_searcher, web, earlier,
                 results, platform, mentions, engagement, sentiment,
                   dominance, sov_metrics, search_results, platform_sov,
                   overall_sov, keyword_analysis>>

Next ==
    \/ AnalyzeSov
    \/ CalculateOverallSov
    \/ AnalyzeKeywordPerformance
    \/ IdentifyContentGaps

Spec == Init /\ [][Next]_vars

-----------------------------------------------------------------------------
(* identify_content_gaps called on a given keyword_sov. *)

InitGaps ==
    /\ pc = "identify_content_gaps"
    /\ keyword_analysis \in {[keyword_sov |-> ks] : ks \in KeywordSovs}
    /\ results = None /\ platform = None
    /\ mentions = None /\ engagement = None /\ sentiment = None
    /\ dominance = None /\ sov_metrics = None
    /\ search_results = None /\ platform_sov = None /\ overall_sov = None
    /\ gaps = None /\ earlier = None
    /\ config = ShippedConfig /\ google_searcher = None /\ web = None

NextGaps == IdentifyContentGaps

SpecGaps == InitGaps /\ [][NextGaps]_vars

-----------------------------------------------------------------------------
(* calculate_ranking_dominance called on the list a searcher's             *)
(* search_all_keywords returns: the results of the keywords one after      *)
(* another, up to TOP_N_RESULTS for each keyword.                          *)

\* YouTubeSearcher.search, lines 207-235: the results of one query, each
\* with the keyword and its rank within the query ("position": idx + 1)
RankedHits(keyword, titles) ==
    [i \in DOMAIN titles |->
        [title |-> titles[i], snippet |-> <<>>,
         keyword |-> keyword, position |-> i]]

RECURSIVE search_all_keywords(_, _)
\* all_results.extend(results) for the first n keywords
search_all_keywords(hits, n) ==
    IF n = 0 THEN <<>>
    ELSE search_all_keywords(hits, n - 1) \o RankedHits(KeywordNames[n], hits[n])

\* the titles found for two keywords: for the first up to MaxRank results
\* that all name no brand or all name the two competitors, for the second
\* none, one or two results that name the focal brand
DominanceHits ==
    {<<[i \in 1..n |-> t], ts>> :
        n \in 0..MaxRank,
        t \in {<<"x">>, <<"b", " ", "c">>},
        ts \in SeqsUpTo({<<"A", "b">>}, 2)}

InitDominance ==
    /\ pc = "calculate_ranking_dominance"
    /\ results \in {search_all_keywords(h, 2) : h \in DominanceHits}
    /\ platform \in PlatformTags
    /\ mentions = None /\ engagement = None /\ sentiment = None
    /\ dominance = None /\ sov_metrics = None
    /\ search_results = None /\ platform_sov = None /\ overall_sov = None
    /\ keyword_analysis = None /\ gaps = None /\ earlier = None
    /\ config = ShippedConfig /\ google_searcher = None /\ web = None

NextDominance == CalculateRankingDominance

SpecDominance == InitDominance /\ [][NextDominance]_vars

-----------------------------------------------------------------------------
(* calculate_engagement called on results whose views, likes and comment   *)
(* count are present, missing or no number.                                *)

\* a string that is no number, such as "n/a"
Junk == [kind |-> "junk", n |-> 0]

\* results naming the focal brand whose views and comment count are each a
\* number as the searcher writes it, missing, or a string that is no
\* number, and likewise the likes of a result otherwise in order; and one
\* result naming the two competitors
EngagementPool ==
    {[title |-> <<"A", "b">>, likes |-> Digits(1)] @@ v @@ c :
        v \in {<<>>, [views |-> Digits(10)], [views |-> Junk]},
        c \in {<<>>, [comment_count |-> Number(2)], [comment_count |-> Junk]}}
    \cup {[title |-> <<"A", "b">>, views |-> Digits(10),
           comment_count |-> Number(2)] @@ l :
             l \in {<<>>, [likes |-> Junk]}}
    \cup {[title |-> <<"b", " ", "c">>, views |-> Digits(30),
           likes |-> Digits(3), comment_count |-> Number(0)]}
    \* the three counts as integers, and the record YouTubeSearcher.search
    \* builds (search_engines.py, lines 217-234): views a string, likes and
    \* comment_count integers
    \cup {[title |-> <<"A", "b">>, views |-> Number(10),
           likes |-> Number(1), comment_count |-> Number(2)],
          [title |-> <<"A", "b">>, views |-> Digits(10),
           likes |-> Number(1), comment_count |-> Number(2)]}

\* the tags of PlatformTags and one that config.PLATFORMS does not know
EngagementTags == PlatformTags \cup {"tiktok"}

InitEngagement ==
    /\ pc = "calculate_engagement"
    /\ results \in SeqsUpTo(EngagementPool, MaxResults)
    /\ platform \in EngagementTags
    /\ mentions = None /\ engagement = None /\ sentiment = None
    /\ dominance = None /\ sov_metrics = None
    /\ search_results = None /\ platform_sov = None /\ overall_sov = None
    /\ keyword_analysis = None /\ gaps = None /\ earlier = None
    /\ config = ShippedConfig /\ google_searcher = None /\ web = None

NextEngagement == CalculateEngagement

SpecEngagement == InitEngagement /\ [][NextEngagement]_vars

-----------------------------------------------------------------------------
(* analyze_sentiment called on a list of results whose polarity lies       *)
(* around the threshold.                                                   *)

\* what the library answers for a text: a compound of 0.2 gives the
\* combined score 0.6 exactly, 0.2002 gives 0.6001, -1 gives 0 and 1 gives 1
Compounds == {Rat(1, 5), Rat(2002, 10000), RInt(-1), RInt(1)}

\* results naming the focal brand or the two competitors in the title, or
\* the focal brand in a comment only
SentimentPool ==
    {[title |-> t, snippet |-> <<>>, comments |-> <<>>, compound |-> c] :
        t \in {<<"A", "b">>, <<"b", " ", "c">>}, c \in Compounds}
    \cup {[title |-> <<"x">>, comments |-> << <<"o", "k">>, <<"a", "b">> >>,
           compound |-> RInt(1)]}

InitSentiment ==
    /\ pc = "analyze_sentiment"
    /\ results \in SeqsUpTo(SentimentPool, MaxResults)
    /\ platform \in PlatformTags
    /\ mentions = None /\ engagement = None /\ sentiment = None
    /\ dominance = None /\ sov_metrics = None
    /\ search_results = None /\ platform_sov = None /\ overall_sov = None
    /\ keyword_analysis = None /\ gaps = None /\ earlier = None
    /\ config = ShippedConfig /\ google_searcher = None /\ web = None

NextSentiment == AnalyzeSentiment

SpecSentiment == InitSentiment /\ [][NextSentiment]_vars

-----------------------------------------------------------------------------
(* SoVAgent.run, steps 2 to 4, when each platform found nothing or found   *)
(* two results.                                                            *)

\* results of keyword "k1" naming only the focal brand, with or without
\* views and of positive or neutral polarity, and one naming the competitors
ScenarioPool ==
    {[title |-> <<"A", "b">>, snippet |-> <<>>, keyword |-> "k1",
      views |-> v, likes |-> Digits(1), comment_count |-> Number(2),
      age_days |-> 30, comments |-> <<>>, compound |-> c] :
        v \in {Digits(10), Digits(0)}, c \in {Rat(2, 5), RInt(0)}}
    \cup {[title |-> <<"b", " ", "c">>, snippet |-> <<>>, keyword |-> "k1",
           views |-> Digits(30), likes |-> Digits(3), comment_count |-> Number(0),
           age_days |-> 60, comments |-> <<>>, compound |-> Rat(1, 5)]}

\* platform -> the empty list or a list of two results
ScenarioSearchResults ==
    UNION {[D -> {<<>>} \cup [1..2 -> ScenarioPool]] :
              D \in SUBSET Range(PlatformOrder)}

InitScenario ==
    /\ pc = "analyze_sov"
    /\ search_results \in ScenarioSearchResults
    /\ results = None /\ platform = None
    /\ mentions = None /\ engagement = None /\ sentiment = None
    /\ dominance = None /\ sov_metrics = None
    /\ platform_sov = None /\ overall_sov = None
    /\ keyword_analysis = None /\ gaps = None /\ earlier = None
    /\ config = ShippedConfig /\ google_searcher = None /\ web = None

NextScenario ==
    \/ AnalyzeSov
    \/ CalculateOverallSov
    \/ AnalyzeKeywordPerformance
    \/ IdentifyContentGaps

SpecScenario == InitScenario /\ [][NextScenario]_vars

-----------------------------------------------------------------------------
(* analyze_sov, lines 118-129, and calculate_overall_sov on given outputs  *)
(* of the four scorers for each platform.                                  *)

\* the shares of the focal brand in a sub-map
BoundedShares == {0, 35, 100}

\* a percentage map with values in [0, 100]: the focal brand and one
\* competitor share everything, the other competitor is missing
BoundedMaps ==
    {[b \in {BRAND_NAME, "B"} |->
         IF b = BRAND_NAME THEN RInt(v) ELSE RInt(100 - v)] : v \in BoundedShares}

\* what the four scorers returned for one platform
ScorerOutputs ==
    {[mentions   |-> [percentages |-> a],
      engagement |-> [percentages |-> b],
      sentiment  |-> [positive_sov |-> c],
      dominance  |-> [percentages |-> d]] :
        a \in BoundedMaps, b \in BoundedMaps, c \in BoundedMaps, d \in BoundedMaps}

InitWeights ==
    /\ pc = "calculate_sov_metrics"
    /\ platform_sov \in UNION {[D -> ScorerOutputs] : D \in SUBSET Range(PlatformOrder)}
    /\ results = None /\ platform = None
    /\ mentions = None /\ engagement = None /\ sentiment = None
    /\ dominance = None /\ sov_metrics = None
    /\ search_results = None /\ overall_sov = None
    /\ keyword_analysis = None /\ gaps = None /\ earlier = None
    /\ config = ShippedConfig /\ google_searcher = None /\ web = None

\* analyze_sov, lines 119-129: the combiner's answer stored with the
\* scorers' outputs of each platform
CombineEachPlatform ==
    /\ pc = "calculate_sov_metrics"
    /\ platform_sov' =
           [p \in DOMAIN platform_sov |->
               [mentions    |-> platform_sov[p].mentions,
                engagement  |-> platform_sov[p].engagement,
                sentiment   |-> platform_sov[p].sentiment,
                dominance   |-> platform_sov[p].dominance,
                sov_metrics |->
                    calculate_sov_metrics(platform_sov[p].mentions,
                                          platform_sov[p].engagement,
                                          platform_sov[p].sentiment,
                                          platform_sov[p].dominance)]]
    /\ pc' = "calculate_overall_sov"
    /\ UNCHANGED <<config, google_searcher, web, earlier,
                 results, platform, mentions, engagement, sentiment,
                   dominance, sov_metrics, search_results, overall_sov,
                   keyword_analysis, gaps>>

NextWeights ==
    \/ CombineEachPlatform
    \/ CalculateOverallSov

SpecWeights == InitWeights /\ [][NextWeights]_vars

-----------------------------------------------------------------------------
(* The same calls made a second time on the same SoVCalculator and         *)
(* CrossKeywordAnalyzer objects with the same arguments: the scorers and   *)
(* the combiner on one result list, or steps 2 to 4 of SoVAgent.run.       *)

\* platform -> at most one result
TwiceSearchResults ==
    UNION {[D -> SeqsUpTo(RunPool, 1)] : D \in SUBSET Range(PlatformOrder)}

\* everything returned so far
Returned ==
    [mentions |-> mentions, engagement |-> engagement, sentiment |-> sentiment,
     dominance |-> dominance, sov_metrics |-> sov_metrics,
     platform_sov |-> platform_sov, overall_sov |-> overall_sov,
     keyword_analysis |-> keyword_analysis, gaps |-> gaps]

InitTwice ==
    /\ \/ /\ pc = "count_mentions"
          /\ results \in SeqsUpTo(RunPool, MaxResults)
          /\ platform \in PlatformTags
          /\ search_results = None
       \/ /\ pc = "analyze_sov"
          /\ search_results \in TwiceSearchResults
          /\ results = None /\ platform = None
    /\ mentions = None /\ engagement = None /\ sentiment = None
    /\ dominance = None /\ sov_metrics = None
    /\ platform_sov = None /\ overall_sov = None
    /\ keyword_analysis = None /\ gaps = None /\ earlier = None
    /\ config = ShippedConfig /\ google_searcher = None /\ web = None

\* the calls are made again: the objects are the same, the arguments too
InvokeAgain ==
    /\ pc = "done"
    /\ earlier = None
    /\ earlier' = Returned
    /\ pc' = IF search_results = None THEN "count_mentions" ELSE "analyze_sov"
    /\ UNCHANGED <<config, google_searcher, web,
                   results, platform, mentions, engagement, sentiment,
                   dominance, sov_metrics, search_results, platform_sov,
                   overall_sov, keyword_analysis, gaps>>

NextTwice ==
    \/ CountMentions
    \/ CalculateEngagement
    \/ AnalyzeSentiment
    \/ CalculateRankingDominance
    \/ CalculateSovMetrics
    \/ AnalyzeSov
    \/ CalculateOverallSov
    \/ AnalyzeKeywordPerformance
    \/ IdentifyContentGaps
    \/ InvokeAgain

SpecTwice == InitTwice /\ [][NextTwice]_vars

-----------------------------------------------------------------------------
(* generate_cross_keyword_insights, lines 151-152: the keyword tally and   *)
(* the gap detector on the lists of the platforms.                         *)

\* results of two keywords (or of none) whose title names the focal brand,
\* the two competitors, no brand, or holds a brand name only inside a
\* longer word ("abb", "bb")
KeywordPool ==
    {[title |-> t, snippet |-> <<>>, keyword |-> k] :
        t \in {<<"A", "b">>, <<"b", " ", "c">>, <<"a", "b", "b">>,
               <<"b", "b">>, <<"x">>},
        k \in {"k1", "k2"}}
    \cup {[title |-> <<"A", "b">>, snippet |-> <<>>]}

\* platform -> result list: up to MaxResults results on google, at most one
\* on youtube
KeywordSearchResults ==
    {g @@ y :
        g \in {<<>>} \cup {[p \in {"google"} |-> rs] :
                              rs \in SeqsUpTo(KeywordPool, MaxResults)},
        y \in {<<>>} \cup {[p \in {"youtube"} |-> rs] :
                              rs \in SeqsUpTo(KeywordPool, 1)}}

InitKeywords ==
    /\ pc = "analyze_keyword_performance"
    /\ search_results \in KeywordSearchResults
    /\ results = None /\ platform = None
    /\ mentions = None /\ engagement = None /\ sentiment = None
    /\ dominance = None /\ sov_metrics = None
    /\ platform_sov = None /\ overall_sov = None
    /\ keyword_analysis = None /\ gaps = None /\ earlier = None
    /\ config = ShippedConfig /\ google_searcher = None /\ web = None

NextKeywords ==
    \/ AnalyzeKeywordPerformance
    \/ IdentifyContentGaps

SpecKeywords == InitKeywords /\ [][NextKeywords]_vars

-----------------------------------------------------------------------------
(* analyze_sentiment called by an agent constructed with any config: the   *)
(* shipped one, one with a single competitor, one whose focal brand "D"    *)
(* is in no list of the shipped one.                                       *)

\* values of config.BRAND_NAME and config.COMPETITOR_BRANDS
Configurations ==
    {ShippedConfig,
     [ShippedConfig EXCEPT !.COMPETITOR_BRANDS = <<"B">>],
     [ShippedConfig EXCEPT !.BRAND_NAME = "D"]}

\* every brand some configuration names
ConfiguredBrands == UNION {Range(AllBrandsOf(c)) : c \in Configurations}

\* results naming "Ab", "B" and "C", "D", or "Ab" and "D"
ConfiguredPool ==
    {[title |-> t, snippet |-> <<>>, comments |-> <<>>, compound |-> RInt(1)] :
        t \in {<<"A", "b">>, <<"b", " ", "c">>, <<"D">>, <<"a", "b", " ", "d">>}}

InitConfigured ==
    /\ pc = "analyze_sentiment"
    /\ config \in Configurations
    /\ results \in SeqsUpTo(ConfiguredPool, MaxResults)
    /\ platform \in PlatformTags
    /\ mentions = None /\ engagement = None /\ sentiment = None
    /\ dominance = None /\ sov_metrics = None
    /\ search_results = None /\ platform_sov = None /\ overall_sov = None
    /\ keyword_analysis = None /\ gaps = None /\ earlier = None
    /\ google_searcher = None /\ web = None

NextConfigured == AnalyzeSentiment

SpecConfigured == InitConfigured /\ [][NextConfigured]_vars

-----------------------------------------------------------------------------
(* analyze_sentiment called on results with more comments than it reads   *)
(* (YouTubeSearcher.search keeps up to MAX_COMMENTS_PER_VIDEO = 100).      *)

\* 51 comments saying "o", but for the comments at 50 and at 51
LongComments(at50, at51) ==
    [k \in 1..(MAX_SENTIMENT_COMMENTS + 1) |->
        CASE k = MAX_SENTIMENT_COMMENTS     -> at50
          [] k = MAX_SENTIMENT_COMMENTS + 1 -> at51
          [] OTHER                          -> <<"o">>]

\* a result naming the focal brand in comment 50 and "B" in comment 51; one
\* naming the focal brand in the second of two comments; two without
\* comments
CommentsPool ==
    {[title |-> <<"x">>, compound |-> RInt(1),
      comments |-> LongComments(<<"a", "b">>, <<"b">>)],
     [title |-> <<"x">>, compound |-> RInt(1),
      comments |-> << <<"o", "k">>, <<"a", "b">> >>],
     [title |-> <<"A", "b">>, compound |-> RInt(1)],
     [title |-> <<"b", " ", "c">>, snippet |-> <<>>, compound |-> Rat(1, 5),
      comments |-> <<>>]}

InitComments ==
    /\ pc = "analyze_sentiment"
    /\ results \in SeqsUpTo(CommentsPool, MaxResults)
    /\ platform \in PlatformTags
    /\ mentions = None /\ engagement = None /\ sentiment = None
    /\ dominance = None /\ sov_metrics = None
    /\ search_results = None /\ platform_sov = None /\ overall_sov = None
    /\ keyword_analysis = None /\ gaps = None /\ earlier = None
    /\ config = ShippedConfig /\ google_searcher = None /\ web = None

NextComments == AnalyzeSentiment

SpecComments == InitComments /\ [][NextComments]_vars

-----------------------------------------------------------------------------
(* SoVAgent.run, steps 1 to 3: search_platforms with platforms enabled or  *)
(* disabled and searches that fail or succeed, then analyze_sov and        *)
(* calculate_overall_sov.                                                  *)

\* config.PLATFORMS: each of google and youtube enabled or disabled, or the
\* key "youtube" missing
PlatformSettings ==
    {[PLATFORMS EXCEPT !.google = g, !.youtube = y] : g, y \in BOOLEAN}
    \cup {[google |-> TRUE, twitter |-> FALSE]}

\* what a call of search_all_keywords does: it raises, or returns a list
\* of at most one result
SearchOutcomes ==
    {[raises |-> TRUE, found |-> <<>>]}
    \cup {[raises |-> FALSE, found |-> l] : l \in SeqsUpTo(RunPool, 1)}

InitSearch ==
    /\ pc = "search_platforms"
    /\ config \in {[ShippedConfig EXCEPT !.PLATFORMS = s] : s \in PlatformSettings}
    /\ web \in [Range(SearchedPlatforms) -> SearchOutcomes]
    /\ search_results = None
    /\ results = None /\ platform = None
    /\ mentions = None /\ engagement = None /\ sentiment = None
    /\ dominance = None /\ sov_metrics = None
    /\ platform_sov = None /\ overall_sov = None
    /\ keyword_analysis = None /\ gaps = None /\ earlier = None
    /\ google_searcher = None

\* run, line 162
SearchPlatforms ==
    /\ pc = "search_platforms"
    /\ search_results' = search_platforms(config, web)
    /\ pc' = "analyze_sov"
    /\ UNCHANGED <<config, google_searcher, web, earlier,
                   results, platform, mentions, engagement, sentiment,
                   dominance, sov_metrics, platform_sov, overall_sov,
                   keyword_analysis, gaps>>

NextSearch ==
    \/ SearchPlatforms
    \/ AnalyzeSov
    \/ CalculateOverallSov

SpecSearch == InitSearch /\ [][NextSearch]_vars

-----------------------------------------------------------------------------
(* GoogleSearcher: searches made one after the other on one searcher.      *)

\* the number of calls of search followed on one searcher
MaxSearches == 3

\* config.TOP_N_RESULTS
TOP_N_RESULTS == 20

\* the argument num_results: not given (None), or the number n
NotGiven == [given |-> FALSE, n |-> 0]
Given(n) == [given |-> TRUE, n |-> n]

\* the items of a response: dicts with a title and, or not, a snippet
ItemPool ==
    {[title |-> <<"A", "b">>, snippet |-> <<"x">>],
     [title |-> <<"b", " ", "c">>]}

\* what requests.get and response.json() do for one request: raise, answer
\* with an error status, or answer 200 with a list of items (empty when the
\* JSON has no "items")
Responses ==
    {[raises |-> TRUE, status_code |-> 0, items |-> <<>>],
     [raises |-> FALSE, status_code |-> 403, items |-> <<>>]}
    \cup {[raises |-> FALSE, status_code |-> 200, items |-> its] :
             its \in SeqsUpTo(ItemPool, 2)}

\* GoogleSearcher.__init__, lines 20-30, with the calls made so far (none),
\* the requests sent so far (none) and whether one of them raised
GoogleSearcher(api_key, cse_id) ==
    [api_key         |-> api_key,
     cse_id          |-> cse_id,
     top_n           |-> TOP_N_RESULTS,
     production_mode |-> (api_key # "" /\ cse_id # ""),
     searches        |-> 0,
     requests        |-> 0,
     api_raised      |-> FALSE,
     last            |-> [keyword |-> "", num_results |-> 0, requested |-> FALSE,
                          response |-> [raises |-> FALSE, status_code |-> 0,
                                        items |-> <<>>]],
     returned        |-> <<>>]

\* _create_mock_results, lines 77-90: min(num_results, 10) results whose
\* snippet names Atomberg, Havells and Crompton ("Ab", "B", "C")
create_mock_results(keyword, num_results) ==
    [i \in 1..Min(num_results, 10) |->
        [title    |-> <<"x">>,
         link     |-> <<"https://example.com/smart-fan-", i>>,
         snippet  |-> <<"A", "b", ",", " ", "B", ",", " ", "C", ".">>,
         platform |-> "google",
         keyword  |-> keyword,
         mode     |-> "demo"]]

\* ModeAfterRequest without `self.production_mode = False`
ModeKept(production_mode, response) == production_mode

\* lines 41 and 65-67: production_mode after the try block
ModeAfterRequest(production_mode, response) ==
    IF production_mode /\ response.raises THEN FALSE ELSE production_mode

\* lines 51-62: the results made of the items of a response
ProductionResults(keyword, num_results, response) ==
    IF response.raises \/ response.status_code # 200 THEN <<>>
    ELSE [i \in 1..Min(Len(response.items), num_results) |->
             [title    |-> Get(response.items[i], "title", <<>>),
              link     |-> Get(response.items[i], "link", <<>>),
              snippet  |-> Get(response.items[i], "snippet", <<>>),
              platform |-> "google",
              keyword  |-> keyword,
              mode     |-> "production"]]

\* GoogleSearcher.search, lines 32-75: the searcher after the call, with
\* what the call returned.  The response is what the API would do with a
\* request; it is asked only in production mode.
search(self, keyword, num_results_arg, response) ==
    LET num_results ==
            IF num_results_arg.given THEN num_results_arg.n ELSE self.top_n
        from_api ==
            IF self.production_mode
            THEN ProductionResults(keyword, num_results, response)
            ELSE <<>>
    IN  [self EXCEPT
            !.production_mode = ModeAfterRequest(self.production_mode, response),
            !.searches = @ + 1,
            !.requests = IF self.production_mode THEN @ + 1 ELSE @,
            !.api_raised = @ \/ (self.production_mode /\ response.raises),
            !.last = [keyword |-> keyword, num_results |-> num_results,
                      requested |-> self.production_mode, response |-> response],
            !.returned = IF Len(from_api) = 0
                         THEN create_mock_results(keyword, num_results)
                         ELSE from_api]

\* the keywords searched and the values of num_results
SearchKeywords == {"k1", "k2"}
NumResultsArgs == {NotGiven, Given(0), Given(1), Given(2)}

InitGoogle ==
    /\ pc = "search"
    /\ \E api_key \in {"", "key"}, cse_id \in {"", "cx"} :
          google_searcher = GoogleSearcher(api_key, cse_id)
    /\ results = None /\ platform = None
    /\ mentions = None /\ engagement = None /\ sentiment = None
    /\ dominance = None /\ sov_metrics = None
    /\ search_results = None /\ platform_sov = None /\ overall_sov = None
    /\ keyword_analysis = None /\ gaps = None /\ earlier = None
    /\ config = ShippedConfig /\ web = None

\* one call of search on the searcher
GoogleSearch ==
    /\ pc = "search"
    /\ google_searcher.searches < MaxSearches
    /\ \E keyword \in SearchKeywords, n \in NumResultsArgs, response \in Responses :
          google_searcher' = search(google_searcher, keyword, n, response)
    /\ UNCHANGED <<pc, config, web, earlier,
                   results, platform, mentions, engagement, sentiment,
                   dominance, sov_metrics, search_results, platform_sov,
                   overall_sov, keyword_analysis, gaps>>

NextGoogle == GoogleSearch

SpecGoogle == InitGoogle /\ [][NextGoogle]_vars

-----------------------------------------------------------------------------
(* Properties of the scorers (SpecScorers). *)

\* a percentage map over all tracked brands whose values lie in [0, 100]
\* and sum to 100
SumsTo100(pct) ==
    /\ DOMAIN pct = AllBrandSet
    /\ \A b \in AllBrandSet :
          pct[b][2] > 0 /\ RLe(RInt(0), pct[b]) /\ RLe(pct[b], RInt(100))
    /\ RSumOver(pct, AllBrandSet) = RInt(100)

\* C1: whenever total_mentions, total_engagement or total_dominance is
\* positive, the percentage map returned with it holds a value in [0, 100]
\* for every tracked brand and its values sum to 100.
C1_SharesSumTo100 ==
    /\ (mentions # None /\ mentions.total_mentions > 0)
          => SumsTo100(mentions.percentages)
    /\ (engagement # None /\ engagement.total_engagement > 0)
          => SumsTo100(engagement.percentages)
    /\ (dominance # None /\ dominance.total_dominance > 0)
          => SumsTo100(dominance.percentages)

\* a brand's share that is neither nothing nor everything
Partial(pct) == \E b \in AllBrandSet : pct[b] \notin {RInt(0), RInt(100)}

\* all three scorers have returned with a positive total, each map shared
\* between several brands
C1_Witness ==
    /\ pc = "done"
    /\ mentions.total_mentions > 0 /\ Partial(mentions.percentages)
    /\ engagement.total_engagement > 0 /\ Partial(engagement.percentages)
    /\ dominance.total_dominance > 0 /\ Partial(dominance.percentages)

\* every tracked brand at exactly 0.0
ZeroMap == [b \in AllBrandSet |-> RInt(0)]

\* C2: whenever the underlying total is zero (the empty result list
\* included), the percentage map holds every tracked brand at exactly 0.0;
\* no entry is the outcome of a division by zero.
C2_ZeroTotalGivesZeroMap ==
    /\ (mentions # None /\ mentions.total_mentions = 0)
          => mentions.percentages = ZeroMap
    /\ (engagement # None /\ engagement.total_engagement = 0)
          => engagement.percentages = ZeroMap
    /\ (dominance # None /\ dominance.total_dominance = 0)
          => dominance.percentages = ZeroMap

\* the three scorers have returned for the empty result list
C2_Witness ==
    /\ pc = "done"
    /\ results = <<>>
    /\ mentions.total_mentions = 0 /\ mentions.percentages = ZeroMap
    /\ engagement.total_engagement = 0 /\ engagement.percentages = ZeroMap
    /\ dominance.total_dominance = 0 /\ dominance.percentages = ZeroMap

\* the text of a result: a missing title or snippet is the empty string
TextOrEmpty(result) ==
    (IF "title" \in DOMAIN result THEN result.title ELSE <<>>)
    \o <<" ">>
    \o (IF "snippet" \in DOMAIN result THEN result.snippet ELSE <<>>)

\* the places of text where the name stands as a word of its own, whatever
\* the case of the letters: no letter right before it, none right after it
WholeWordPlaces(name, text) ==
    {i \in 1..Len(text) :
        /\ i + Len(name) - 1 <= Len(text)
        /\ \A j \in 1..Len(name) : LowerChar(text[i + j - 1]) = LowerChar(name[j])
        /\ (i = 1 \/ ~IsWordChar(text[i - 1]))
        /\ (i + Len(name) - 1 = Len(text) \/ ~IsWordChar(text[i + Len(name)]))}

\* C4: for each brand, count_mentions counts exactly the case-insensitive
\* whole-word occurrences of the brand name in title + " " + snippet, summed
\* over all results; a name inside a longer word adds nothing, and a missing
\* title or snippet is the empty string.
C4_WholeWordCounts ==
    mentions # None =>
        /\ Len(results) > 0 => DOMAIN mentions.raw_counts = AllBrandSet
        /\ \A b \in AllBrandSet :
              Get(mentions.raw_counts, b, 0)
                = SumOver([i \in DOMAIN results |->
                              Cardinality(WholeWordPlaces(Spelling(b),
                                                          TextOrEmpty(results[i])))],
                          DOMAIN results)

\* "abb C" then "b c" with no snippet: "ab" and "b" inside "abb" add
\* nothing, the "b" and the two "c" standing alone are counted
C4_Witness ==
    /\ mentions # None
    /\ Len(results) = 2
    /\ results[1].title = <<"a", "b", "b">> /\ results[1].snippet = <<"C">>
    /\ results[2].title = <<"b", " ", "c">> /\ "snippet" \notin DOMAIN results[2]
    /\ mentions.raw_counts = [b \in AllBrandSet |->
                                 IF b = "Ab" THEN 0 ELSE IF b = "B" THEN 1 ELSE 2]

-----------------------------------------------------------------------------
(* Properties of SoVAgent.run (Spec). *)

\* the focal brand is a key of every per-brand mapping of one platform
FocalBrandInMappings(report) ==
    /\ BRAND_NAME \in DOMAIN report.mentions.raw_counts
    /\ BRAND_NAME \in DOMAIN report.mentions.percentages
    /\ BRAND_NAME \in DOMAIN report.engagement.percentages
    /\ BRAND_NAME \in DOMAIN report.dominance.raw_scores
    /\ BRAND_NAME \in DOMAIN report.dominance.percentages
    /\ BRAND_NAME \in DOMAIN report.sentiment.sentiment_stats
    /\ BRAND_NAME \in DOMAIN report.sentiment.positive_sov
    /\ BRAND_NAME \in DOMAIN report.sov_metrics.weighted_sov

\* C3: the focal brand is a key of every per-brand mapping produced for a
\* platform (raw_counts, the percentage maps, raw_scores, sentiment_stats,
\* positive_sov, weighted_sov), also when it has no mention.
C3_FocalBrandInEveryMapping ==
    platform_sov # None =>
        \A p \in DOMAIN platform_sov : FocalBrandInMappings(platform_sov[p])

\* C6: when some platform has results, the overall SoV of each brand is the
\* mean of its weighted_sov over exactly the platforms whose result list is
\* not empty, and platform_count is the number of those platforms.
C6_OverallIsMeanOverNonEmpty ==
    overall_sov # None =>
        LET nonempty == {p \in DOMAIN search_results : search_results[p] # <<>>}
            n == Cardinality(nonempty)
        IN  n > 0 =>
              /\ overall_sov.platform_count = n
              /\ overall_sov.platforms_analyzed = nonempty
              /\ DOMAIN overall_sov.sov_percentage = AllBrandSet
              /\ \A b \in AllBrandSet :
                    RMul(overall_sov.sov_percentage[b], RInt(n))
                      = RSumOver([p \in nonempty |->
                                     platform_sov[p].sov_metrics.weighted_sov[b]],
                                 nonempty)

\* google returned results, youtube the empty list: one platform counted,
\* and the focal brand's overall SoV is its google composite, not half of it
C6_Witness ==
    /\ overall_sov # None
    /\ DOMAIN search_results = {"google", "youtube"}
    /\ search_results["youtube"] = <<>>
    /\ Len(search_results["google"]) > 0
    /\ overall_sov.platform_count = 1
    /\ RGt(overall_sov.sov_percentage[BRAND_NAME], RInt(0))
    /\ overall_sov.sov_percentage[BRAND_NAME]
         = platform_sov["google"].sov_metrics.weighted_sov[BRAND_NAME]

\* C10: the per-keyword tally counts, for each brand, the results of the
\* keyword that name the brand as a whole word (the matching of
\* count_mentions).
C10_TallyMatchesWholeWords ==
    keyword_analysis # None =>
        LET all == AllResultsFrom(search_results, Len(PlatformOrder))
        IN  \A e \in Range(keyword_analysis.keyword_performance) :
                \A b \in AllBrandSet :
                    e.counts[b]
                      = Cardinality({i \in DOMAIN all :
                            /\ KeywordOf(all[i]) = e.keyword
                            /\ WholeWordPlaces(Spelling(b), TextOrEmpty(all[i])) # {}})

-----------------------------------------------------------------------------
(* Properties of calculate_sov_metrics (SpecCombiner). *)

\* the share of a brand in a map of whole percentages, 0 when it is missing
WholeShare(m, b) == IF b \in DOMAIN m THEN m[b][1] ELSE 0

\* C5: weighted_sov[brand] = 0.4*presence + 0.3*engagement + 0.2*sentiment
\* + 0.1*dominance for every tracked brand, a brand missing from a sub-map
\* (or a missing dominance argument) contributing 0 for that term.
C5_WeightedFormula ==
    sov_metrics # None =>
        /\ DOMAIN sov_metrics.weighted_sov = AllBrandSet
        /\ \A b \in AllBrandSet :
              LET p == WholeShare(mentions.percentages, b)
                  e == WholeShare(engagement.percentages, b)
                  s == WholeShare(sentiment.positive_sov, b)
                  d == IF dominance # None /\ "percentages" \in DOMAIN dominance
                       THEN WholeShare(dominance.percentages, b) ELSE 0
              IN  sov_metrics.weighted_sov[b] = Rat(4 * p + 3 * e + 2 * s + d, 10)

\* presence 50, engagement 20, sentiment 80, dominance 10 give 43; the
\* competitor missing from every map gets 0
C5_Witness ==
    /\ sov_metrics # None
    /\ Get(mentions.percentages, BRAND_NAME, RInt(0)) = RInt(50)
    /\ Get(engagement.percentages, BRAND_NAME, RInt(0)) = RInt(20)
    /\ Get(sentiment.positive_sov, BRAND_NAME, RInt(0)) = RInt(80)
    /\ dominance # None
    /\ Get(Get(dominance, "percentages", <<>>), BRAND_NAME, RInt(0)) = RInt(10)
    /\ sov_metrics.weighted_sov[BRAND_NAME] = RInt(43)
    /\ sov_metrics.weighted_sov["C"] = RInt(0)

-----------------------------------------------------------------------------
(* Properties of identify_content_gaps (SpecGaps). *)

\* the largest of a non-empty set of numbers
Largest(S) == CHOOSE m \in S : \A x \in S : x <= m

\* the focal brand's share for a keyword_sov entry, 0 when missing
FocalShare(e) == WholeShare(e.sovs, BRAND_NAME)

\* the highest competitor share for a keyword_sov entry
TopShare(e) == Largest({WholeShare(e.sovs, c) : c \in Range(COMPETITOR_BRANDS)})

\* the keyword_sov entry a record was made from
EntryOf(g) ==
    CHOOSE e \in Range(keyword_analysis.keyword_sov) : e.keyword = g.keyword

\* C7: a keyword gets exactly one GapRecord if the highest competitor share
\* is strictly greater than the focal brand's share plus 10 and none
\* otherwise; the record's gap is competitor_sov minus the brand's share.
C7_GapFlaggedIffLeadAbove10 ==
    pc = "done" =>
        /\ \A e \in Range(keyword_analysis.keyword_sov) :
              Cardinality({j \in DOMAIN gaps : gaps[j].keyword = e.keyword})
                = IF TopShare(e) > FocalShare(e) + 10 THEN 1 ELSE 0
        /\ \A j \in DOMAIN gaps :
              /\ \E e \in Range(keyword_analysis.keyword_sov) : e.keyword = gaps[j].keyword
              /\ gaps[j].atomberg_sov = RInt(FocalShare(EntryOf(gaps[j])))
              /\ gaps[j].competitor_sov = RInt(TopShare(EntryOf(gaps[j])))
              /\ gaps[j].gap = RInt(gaps[j].competitor_sov[1] - FocalShare(EntryOf(gaps[j])))

\* brand 30 and competitor 40 (a gap of exactly 10) leave no record, while
\* brand 30 and competitor 45 leave one, of gap 15
C7_Witness ==
    /\ pc = "done"
    /\ Len(keyword_analysis.keyword_sov) = 2
    /\ FocalShare(keyword_analysis.keyword_sov[1]) = 30
    /\ TopShare(keyword_analysis.keyword_sov[1]) = 40
    /\ FocalShare(keyword_analysis.keyword_sov[2]) = 30
    /\ TopShare(keyword_analysis.keyword_sov[2]) = 45
    /\ Len(gaps) = 1
    /\ gaps[1].keyword = keyword_analysis.keyword_sov[2].keyword
    /\ gaps[1].gap = RInt(15)

\* C8: an emitted GapRecord is "high" exactly when its gap is strictly
\* greater than 20 points, and "medium" otherwise.
C8_HighIffGapAbove20 ==
    pc = "done" =>
        \A j \in DOMAIN gaps :
            gaps[j].opportunity
              = IF TopShare(EntryOf(gaps[j])) - FocalShare(EntryOf(gaps[j])) > 20
                THEN "high" ELSE "medium"

\* a gap of 25 is high and a gap of exactly 20 is medium
C8_Witness ==
    /\ pc = "done"
    /\ Len(gaps) = 2
    /\ gaps[1].gap = RInt(25) /\ gaps[1].opportunity = "high"
    /\ gaps[2].gap = RInt(20) /\ gaps[2].opportunity = "medium"

\* C9: the returned list is ordered by non-increasing gap.
C9_GapsSortedDescending ==
    pc = "done" =>
        \A j \in 1..(Len(gaps) - 1) : RLe(gaps[j + 1].gap, gaps[j].gap)

\* the larger gap belongs to the later keyword and comes first in the list
C9_Witness ==
    /\ pc = "done"
    /\ Len(gaps) = 2
    /\ RGt(gaps[1].gap, gaps[2].gap)
    /\ gaps[1].keyword = keyword_analysis.keyword_sov[2].keyword
    /\ gaps[2].keyword = keyword_analysis.keyword_sov[1].keyword

-----------------------------------------------------------------------------
(* Properties of calculate_ranking_dominance (SpecDominance). *)

RECURSIVE ScoreAtRank(_)
\* 100 at rank 1, 5 less with every further rank, 0 from rank 21 on
ScoreAtRank(rank) ==
    IF rank = 1 THEN 100
    ELSE IF rank >= 21 THEN 0
    ELSE ScoreAtRank(rank - 1) - 5

\* the ranks in the list of the results that name the brand as a word
RanksNaming(b) ==
    {i \in DOMAIN results :
        WholeWordPlaces(Spelling(b), TextOrEmpty(results[i])) # {}}

\* C11: the score a result adds to each brand it names is 100 at rank 1,
\* 5 less per rank, 0 at rank 21 and at every later rank, never negative
\* (the rank being the place of the result in the list handed over).
C11_PositionScore ==
    dominance # None =>
        \A b \in AllBrandSet :
            /\ Get(dominance.raw_scores, b, 0)
                 = SumOver([i \in RanksNaming(b) |-> ScoreAtRank(i)], RanksNaming(b))
            /\ Get(dominance.raw_scores, b, 0) >= 0

\* the competitors fill ranks 1 to 29 and the focal brand is named only at
\* ranks 30 and 31: it scores 0, competitor "B" 100 + 95 + ... + 5
C11_Witness ==
    /\ dominance # None
    /\ RanksNaming("B") = 1..29
    /\ RanksNaming(BRAND_NAME) = {30, 31}
    /\ dominance.raw_scores[BRAND_NAME] = 0
    /\ dominance.raw_scores["B"] = 1050

\* C20: each result is scored by its own rank within its query's result
\* set (its "position"), so the rank-1 result of every keyword adds 100.
C20_ScoredByRankWithinQuery ==
    dominance # None =>
        \A b \in AllBrandSet :
            Get(dominance.raw_scores, b, 0)
              = SumOver([i \in RanksNaming(b) |-> ScoreAtRank(results[i].position)],
                        RanksNaming(b))

-----------------------------------------------------------------------------
(* Properties of analyze_sentiment (SpecSentiment). *)

\* the results whose title, snippet or comments name the brand as a word
ResultsNaming(b) ==
    {i \in DOMAIN results :
        WholeWordPlaces(Spelling(b), SentimentText(results[i])) # {}}

\* the combined polarity (compound + 1) / 2 of a result is above 0.6
PolarityAbove06(result) ==
    LET c == Get(result, "compound", RInt(0))
    IN  10 * (c[1] + c[2]) > 6 * 2 * c[2]

\* the results naming the brand whose polarity is above 0.6
PositiveNaming(b) == {i \in ResultsNaming(b) : PolarityAbove06(results[i])}

\* C12: for every brand with at least one mention, positive_count is the
\* number of its mentions whose polarity is strictly greater than 0.6 (one
\* of exactly 0.6 is not counted), total_mentions the number of its
\* mentions, and positive_ratio = positive_count / total_mentions.
C12_PositiveAboveThreshold ==
    sentiment # None =>
        \A b \in AllBrandSet :
            ResultsNaming(b) # {} =>
                /\ b \in DOMAIN sentiment.sentiment_stats
                /\ LET st == sentiment.sentiment_stats[b]
                   IN  /\ st.positive_count = Cardinality(PositiveNaming(b))
                       /\ st.total_mentions = Cardinality(ResultsNaming(b))
                       /\ st.positive_ratio
                            = Rat(st.positive_count, st.total_mentions)

\* the focal brand is named by one result of polarity exactly 0.6 and by
\* one of polarity 0.6001: one positive mention out of two
C12_Witness ==
    /\ sentiment # None
    /\ Len(results) = 2
    /\ ResultsNaming(BRAND_NAME) = {1, 2}
    /\ CombinedScore(results[1]) = Rat(6, 10)
    /\ CombinedScore(results[2]) = Rat(6001, 10000)
    /\ sentiment.sentiment_stats[BRAND_NAME].positive_count = 1
    /\ sentiment.sentiment_stats[BRAND_NAME].positive_ratio = Rat(1, 2)

\* the number of positive mentions of all brands together
AllPositive ==
    SumOver([b \in AllBrandSet |-> Cardinality(PositiveNaming(b))], AllBrandSet)

-----------------------------------------------------------------------------
(* Properties of calculate_engagement (SpecEngagement). *)

\* the number a field of a result stands for: 0 when the field is missing
\* or holds a string that is no number
NumberOrZero(result, field) ==
    IF field \notin DOMAIN result THEN 0
    ELSE IF result[field].kind \in {"digits", "int"} THEN result[field].n
    ELSE 0

\* C14: on the youtube platform calculate_engagement never raises for a
\* result whose views, likes or comment count is missing or no number; each
\* such value counts as 0 in the totals of the brands the result names.
C14_MalformedCountsAsZero ==
    (engagement # None /\ platform = "youtube") =>
        /\ engagement # TypeError
        /\ \A b \in DOMAIN engagement.raw_engagement :
              /\ engagement.raw_engagement[b].views
                   = SumOver([i \in RanksNaming(b) |-> NumberOrZero(results[i], "views")],
                             RanksNaming(b))
              /\ engagement.raw_engagement[b].likes
                   = SumOver([i \in RanksNaming(b) |-> NumberOrZero(results[i], "likes")],
                             RanksNaming(b))
              /\ engagement.raw_engagement[b].comments
                   = SumOver([i \in RanksNaming(b) |->
                                 NumberOrZero(results[i], "comment_count")],
                             RanksNaming(b))

-----------------------------------------------------------------------------
(* Properties of the end-to-end scenario (SpecScenario). *)

\* the brands a result names as a word in its title or snippet
BrandsNamed(result) ==
    {b \in AllBrandSet : WholeWordPlaces(Spelling(b), TextOrEmpty(result)) # {}}

\* a list of two results of one keyword, alike in everything, that name
\* only the focal brand (at positions 1 and 2 of the list)
TwoFocalResults(rs) ==
    /\ Len(rs) = 2
    /\ rs[1] = rs[2]
    /\ BrandsNamed(rs[1]) = {BRAND_NAME}

\* the results have views to share (on a platform that is not youtube
\* every result counts 100 views) and a polarity above 0.6
WithViewsAndPositive(rs, pf) ==
    /\ pf = "youtube" => NumberOrZero(rs[1], "views") > 0
    /\ PolarityAbove06(rs[1])

\* everything the run reports for the focal brand is 100 and no gap is
\* recorded for a keyword of the results
AllHundred ==
    /\ \A p \in DOMAIN platform_sov :
          LET m == platform_sov[p].sov_metrics
          IN  /\ m.presence_sov[BRAND_NAME] = RInt(100)
              /\ m.engagement_sov[BRAND_NAME] = RInt(100)
              /\ Get(m.sentiment_sov, BRAND_NAME, RInt(0)) = RInt(100)
              /\ m.dominance_sov[BRAND_NAME] = RInt(100)
              /\ m.weighted_sov[BRAND_NAME] = RInt(100)
    /\ overall_sov.sov_percentage[BRAND_NAME] = RInt(100)
    /\ \A j \in DOMAIN gaps :
          \A p \in DOMAIN search_results :
              \A i \in DOMAIN search_results[p] :
                  gaps[j].keyword # KeywordOf(search_results[p][i])

\* some platform found results and every platform that did found two
\* results alike naming only the focal brand
ScenarioRun ==
    /\ pc = "done"
    /\ \E p \in DOMAIN search_results : search_results[p] # <<>>
    /\ \A p \in DOMAIN search_results :
          search_results[p] # <<>> => TwoFocalResults(search_results[p])

\* C15 as amended: for two results alike with the same keyword that name
\* only the focal brand, have views (where the platform reads them) and a
\* polarity above 0.6, the focal brand's presence, engagement, sentiment and
\* dominance shares, its weighted composite and its overall SoV are all 100
\* and no GapRecord is emitted for the keyword.
C15_ScenarioWithViewsAndPositive ==
    (/\ ScenarioRun
     /\ \A p \in DOMAIN search_results :
           search_results[p] # <<>> => WithViewsAndPositive(search_results[p], p))
        => AllHundred

\* both platforms found the two results, with views and positive polarity
C15_Witness ==
    /\ ScenarioRun
    /\ DOMAIN search_results = {"google", "youtube"}
    /\ \A p \in DOMAIN search_results :
          /\ search_results[p] # <<>>
          /\ WithViewsAndPositive(search_results[p], p)
    /\ AllHundred
    /\ gaps = <<>>

\* C15: for two results with the same keyword that mention only the focal
\* brand, with identical metrics, at positions 1 and 2, the focal brand's
\* four shares, its weighted composite and its overall SoV are all 100 and
\* no GapRecord is emitted for the keyword.
C15_ScenarioAllHundred == ScenarioRun => AllHundred

-----------------------------------------------------------------------------
(* Further properties of SoVAgent.run (Spec). *)

\* C16: for every mapping of platforms to result lists, one in which every
\* list is empty included, nothing is raised and the overall report holds a
\* sov_percentage value for every tracked brand.
C16_CompleteOverallReport ==
    /\ pc # "raised"
    /\ overall_sov # None =>
          /\ "sov_percentage" \in DOMAIN overall_sov
          /\ AllBrandSet \subseteq DOMAIN overall_sov.sov_percentage

-----------------------------------------------------------------------------
(* Properties of the combiner and the overall mean (SpecWeights). *)

\* a float in [0, 100]
InZeroToHundred(x) == x[2] > 0 /\ RLe(RInt(0), x) /\ RLe(x, RInt(100))

\* every value of the four sub-maps of a platform is in [0, 100]
SubMapsBounded(report) ==
    /\ \A b \in DOMAIN report.mentions.percentages :
          InZeroToHundred(report.mentions.percentages[b])
    /\ \A b \in DOMAIN report.engagement.percentages :
          InZeroToHundred(report.engagement.percentages[b])
    /\ \A b \in DOMAIN report.sentiment.positive_sov :
          InZeroToHundred(report.sentiment.positive_sov[b])
    /\ \A b \in DOMAIN report.dominance.percentages :
          InZeroToHundred(report.dominance.percentages[b])

\* C17: with the weights 0.4, 0.3, 0.2, 0.1 and four sub-maps whose values
\* are in [0, 100], every brand's weighted_sov and every brand's overall
\* sov_percentage is in [0, 100].
C17_WeightedAndOverallBounded ==
    (pc # "calculate_sov_metrics"
       /\ \A p \in DOMAIN platform_sov : SubMapsBounded(platform_sov[p])) =>
        /\ \A p \in DOMAIN platform_sov :
              \A b \in AllBrandSet :
                  InZeroToHundred(platform_sov[p].sov_metrics.weighted_sov[b])
        /\ (overall_sov # None /\ DOMAIN platform_sov # {}) =>
              \A b \in AllBrandSet :
                  InZeroToHundred(overall_sov.sov_percentage[b])

\* the focal brand holds everything on both platforms: its composite is 100
\* on each and its overall SoV is 100, the upper end of the interval
C17_Witness ==
    /\ overall_sov # None
    /\ DOMAIN platform_sov = {"google", "youtube"}
    /\ \A p \in DOMAIN platform_sov :
          /\ SubMapsBounded(platform_sov[p])
          /\ platform_sov[p].sov_metrics.weighted_sov[BRAND_NAME] = RInt(100)
    /\ overall_sov.sov_percentage[BRAND_NAME] = RInt(100)
    /\ overall_sov.sov_percentage["C"] = RInt(0)

-----------------------------------------------------------------------------
(* Properties of repeated invocation (SpecTwice). *)

-----------------------------------------------------------------------------
(* Properties of the cross-keyword analysis (SpecKeywords). *)

\* the results of all platforms that carry the keyword
ResultsOfKeyword(k) ==
    UNION {{search_results[p][i] : i \in {j \in DOMAIN search_results[p] :
                                             KeywordOf(search_results[p][j]) = k}} :
              p \in DOMAIN search_results}

\* the keywords of the results found
KeywordsFound ==
    UNION {{KeywordOf(search_results[p][i]) : i \in DOMAIN search_results[p]} :
              p \in DOMAIN search_results}

\* C19: a keyword none of whose results mentions a tracked brand has no
\* entry in keyword_sov and never produces a GapRecord.
C19_NoMentionNoEntryNoGap ==
    keyword_analysis # None =>
        \A k \in KeywordsFound :
            (\A r \in ResultsOfKeyword(k) : BrandsNamed(r) = {}) =>
                /\ \A e \in Range(keyword_analysis.keyword_sov) : e.keyword # k
                /\ pc = "done" => \A j \in DOMAIN gaps : gaps[j].keyword # k

-----------------------------------------------------------------------------
(* Brands without a mention in analyze_sentiment (SpecSentiment). *)

\* the entry the branch of lines 61-67 would write
NeutralStats ==
    [average_sentiment |-> Rat(1, 2), positive_count |-> 0,
     total_mentions |-> 0, positive_ratio |-> RInt(0)]

\* C21: every tracked brand that no result names has a sentiment_stats
\* entry with average_sentiment 0.5, positive_count 0, total_mentions 0 and
\* positive_ratio 0.
C21_ZeroMentionsGetNeutralEntry ==
    sentiment # None =>
        \A b \in AllBrandSet :
            ResultsNaming(b) = {} =>
                /\ b \in DOMAIN sentiment.sentiment_stats
                /\ sentiment.sentiment_stats[b] = NeutralStats

-----------------------------------------------------------------------------
(* The brands analyze_sentiment scores (SpecConfigured). *)

\* C22: whatever brands are configured, a brand that the results name has
\* sentiment statistics if and only if it is one of config.BRAND_NAME and
\* config.COMPETITOR_BRANDS, the brands the other scorers track.
C22_ScoresTheConfiguredBrands ==
    sentiment # None =>
        \A b \in ConfiguredBrands :
            ResultsNaming(b) # {} =>
                (b \in DOMAIN sentiment.sentiment_stats
                    <=> b \in Range(AllBrandsOf(config)))

-----------------------------------------------------------------------------
(* Counts given as integers to calculate_engagement (SpecEngagement). *)

\* C23: on the youtube platform, when the call completes, each brand's raw
\* views, likes and comments are the sums, over the results naming the
\* brand, of the values of the three fields, an integer counting at its
\* numeric value and only a missing or unparsable value counting as 0.
C23_IntegerCountsKeepTheirValue ==
    (engagement # None /\ platform = "youtube" /\ engagement # TypeError) =>
        \A b \in DOMAIN engagement.raw_engagement :
            LET I == RanksNaming(b)
                raw == engagement.raw_engagement[b]
            IN  /\ raw.views
                     = SumOver([i \in I |-> NumberOrZero(results[i], "views")], I)
                /\ raw.likes
                     = SumOver([i \in I |-> NumberOrZero(results[i], "likes")], I)
                /\ raw.comments
                     = SumOver([i \in I |->
                                  NumberOrZero(results[i], "comment_count")], I)

-----------------------------------------------------------------------------
(* Platforms other than youtube in calculate_engagement (SpecEngagement). *)

\* the number of results naming the brand, over all tracked brands
AllNamings ==
    SumOver([b \in AllBrandSet |-> Cardinality(RanksNaming(b))], AllBrandSet)

\* C24: for any platform tag other than "youtube", known or not,
\* calculate_engagement completes whatever the fields of the results hold
\* and counts views 100, likes 10 and comments 5 for every result naming a
\* brand, so the engagement share of a brand is its share of the namings
\* (0.0 for all when no result names a brand).
C24_PlaceholderMetrics ==
    (engagement # None /\ platform # "youtube") =>
        /\ engagement # TypeError
        /\ \A b \in DOMAIN engagement.raw_engagement :
              engagement.raw_engagement[b]
                = [views    |-> 100 * Cardinality(RanksNaming(b)),
                   likes    |-> 10 * Cardinality(RanksNaming(b)),
                   comments |-> 5 * Cardinality(RanksNaming(b))]
        /\ \A b \in AllBrandSet :
              engagement.percentages[b]
                = IF AllNamings > 0
                  THEN Rat(100 * Cardinality(RanksNaming(b)), AllNamings)
                  ELSE RInt(0)

\* on a tag the configuration does not know, a focal result whose views and
\* comment count are no numbers and a result naming the two competitors:
\* a third of the engagement each
C24_Witness ==
    /\ engagement # None
    /\ platform = "tiktok"
    /\ Len(results) = 2
    /\ Get(results[1], "views", Digits(0)) = Junk
    /\ Get(results[1], "comment_count", Number(0)) = Junk
    /\ RanksNaming("B") = {2}
    /\ engagement # TypeError
    /\ engagement.raw_engagement["Ab"] = [views |-> 100, likes |-> 10, comments |-> 5]
    /\ \A b \in AllBrandSet : engagement.percentages[b] = Rat(100, 3)

-----------------------------------------------------------------------------
(* Results naming several brands, or one brand several times (SpecScorers). *)

\* C25: in calculate_engagement and calculate_ranking_dominance a result
\* adds its views (its position score) once to every tracked brand it names,
\* however often it names the brand, and nothing to any other brand: the
\* total of a brand is the sum over the results naming it.
C25_OncePerBrandNamed ==
    /\ engagement # None =>
          \A b \in DOMAIN engagement.raw_engagement :
              engagement.raw_engagement[b].views
                = SumOver([i \in RanksNaming(b) |->
                              ResultMetrics(results[i], platform).views],
                          RanksNaming(b))
    /\ dominance # None =>
          \A b \in DOMAIN dominance.raw_scores :
              dominance.raw_scores[b]
                = SumOver([i \in RanksNaming(b) |-> ScoreAtRank(i)],
                          RanksNaming(b))

\* a first result naming "B" and "C" with 30 views, a second naming "B"
\* more than once with 2000 views: "B" has both results, "C" the first only
C25_Witness ==
    /\ dominance # None
    /\ platform = "youtube"
    /\ Len(results) = 2
    /\ BrandsNamed(results[1]) = {"B", "C"}
    /\ Cardinality(WholeWordPlaces(Spelling("B"), TextOrEmpty(results[2]))) > 1
    /\ engagement.raw_engagement["B"].views = 2030
    /\ engagement.raw_engagement["C"].views = 30
    /\ engagement.raw_engagement["Ab"].views = 0
    /\ dominance.raw_scores["B"] = 195
    /\ dominance.raw_scores["C"] = 100
    /\ dominance.raw_scores["Ab"] = 0

-----------------------------------------------------------------------------
(* The comments analyze_sentiment reads (SpecComments). *)

\* the brand is named as a word in the title, the snippet or one of the
\* first 50 comments of the result
NamedUpToComment50(b, result) ==
    LET comments == Get(result, "comments", <<>>)
    IN  \/ WholeWordPlaces(Spelling(b), TextOrEmpty(result)) # {}
        \/ \E k \in 1..Len(comments) :
              /\ k <= 50
              /\ WholeWordPlaces(Spelling(b), comments[k]) # {}

\* the sentiment mentions analyze_sentiment reports for the brand
TotalMentions(b) ==
    IF b \in DOMAIN sentiment.sentiment_stats
    THEN sentiment.sentiment_stats[b].total_mentions
    ELSE 0

\* C26: a result gives a brand a sentiment mention exactly when the brand
\* is named in its title, its snippet or one of its first 50 comments; a
\* brand named only in the 51st or a later comment gets none from it.
C26_First50CommentsOnly ==
    sentiment # None =>
        \A b \in AllBrandSet :
            TotalMentions(b)
              = Cardinality({i \in DOMAIN results :
                                NamedUpToComment50(b, results[i])})

\* a result with 51 comments names the focal brand in the 50th and "B" in
\* the 51st only: a mention for the focal brand, none for "B"
C26_Witness ==
    /\ sentiment # None
    /\ Len(results) = 1
    /\ Len(Get(results[1], "comments", <<>>)) = 51
    /\ WholeWordPlaces(Spelling(BRAND_NAME), results[1].comments[50]) # {}
    /\ WholeWordPlaces(Spelling("B"), results[1].comments[51]) # {}
    /\ ~NamedUpToComment50("B", results[1])
    /\ TotalMentions(BRAND_NAME) = 1
    /\ TotalMentions("B") = 0

-----------------------------------------------------------------------------
(* The composite summed over the brands (SpecScorers). *)

\* 100 times the weight of a component when its scorer found a signal
\* (the total it divides by is positive), 0 otherwise
WeightIfSignal(total, weight) ==
    IF total > 0 THEN RMul(RInt(100), weight) ELSE RInt(0)

\* the sum of weighted_sov over the tracked brands
CompositeSum == RSumOver(sov_metrics.weighted_sov, AllBrandSet)

\* all four scorers found a signal
AllFourSignals ==
    /\ mentions.total_mentions > 0
    /\ engagement.total_engagement > 0
    /\ sentiment.total_positive_mentions > 0
    /\ dominance.total_dominance > 0

\* C27: the sum of weighted_sov over the tracked brands is 100 times the
\* sum of the weights of the components with a positive signal: never above
\* 100, and 100 exactly when mentions, views, positive mentions and
\* position scores are all positive.
C27_CompositeSumsToSignalWeights ==
    sov_metrics # None =>
        /\ CompositeSum
             = RAdd(RAdd(WeightIfSignal(mentions.total_mentions,
                                        SOV_WEIGHTS.presence_score),
                         WeightIfSignal(engagement.total_engagement,
                                        SOV_WEIGHTS.engagement_score)),
                    RAdd(WeightIfSignal(sentiment.total_positive_mentions,
                                        SOV_WEIGHTS.sentiment_score),
                         WeightIfSignal(dominance.total_dominance,
                                        SOV_WEIGHTS.dominance_score)))
        /\ RLe(CompositeSum, RInt(100))
        /\ (CompositeSum = RInt(100)) <=> AllFourSignals

\* the results name brands but no mention is positive and nothing was
\* viewed: the sum is 100 less 20 for sentiment and 30 for engagement
C27_Witness ==
    /\ sov_metrics # None
    /\ mentions.total_mentions > 0
    /\ dominance.total_dominance > 0
    /\ engagement.total_engagement = 0
    /\ sentiment.total_positive_mentions = 0
    /\ CompositeSum = RInt(50)

\* all four components have a signal and several brands share them
C27_WitnessAllSignals ==
    /\ sov_metrics # None
    /\ AllFourSignals
    /\ Cardinality({b \in AllBrandSet :
                       RGt(sov_metrics.weighted_sov[b], RInt(0))}) > 1
    /\ CompositeSum = RInt(100)

-----------------------------------------------------------------------------
(* The competitor a gap record names (SpecGaps). *)

\* the competitors of the configured order whose share for the entry is the
\* highest, as places in COMPETITOR_BRANDS
TopPlaces(e) ==
    {k \in DOMAIN COMPETITOR_BRANDS :
        WholeShare(e.sovs, COMPETITOR_BRANDS[k]) = TopShare(e)}

\* C28: the top_competitor of a gap record is a configured competitor,
\* never the focal brand, whose share is the highest; when several
\* competitors share the highest share it is the one that comes first in
\* COMPETITOR_BRANDS.
C28_TopCompetitorFirstOfLargest ==
    pc = "done" =>
        \A j \in DOMAIN gaps :
            LET e == EntryOf(gaps[j])
            IN  /\ gaps[j].top_competitor \in Range(COMPETITOR_BRANDS)
                /\ gaps[j].top_competitor # BRAND_NAME
                /\ \E k \in TopPlaces(e) :
                      /\ gaps[j].top_competitor = COMPETITOR_BRANDS[k]
                      /\ \A l \in TopPlaces(e) : k <= l

\* both competitors hold 55 against the focal brand's 30: the record names
\* "B", the first of the two in the configured order
C28_Witness ==
    /\ pc = "done"
    /\ Len(gaps) > 0
    /\ Cardinality(TopPlaces(EntryOf(gaps[1]))) = 2
    /\ FocalShare(EntryOf(gaps[1])) = 30
    /\ gaps[1].competitor_sov = RInt(55)
    /\ gaps[1].top_competitor = COMPETITOR_BRANDS[1]

-----------------------------------------------------------------------------
(* Failed and disabled platforms in search_platforms (SpecSearch). *)

\* the search of the platform was made and raised
SearchFailed(p) == Enabled(config, p) /\ web[p].raises

\* the platforms whose search was made and found at least one result
PlatformsWithResults ==
    {p \in Range(SearchedPlatforms) :
        Enabled(config, p) /\ ~web[p].raises /\ Len(web[p].found) > 0}

\* C29: a platform whose search raised has the empty list in the mapping
\* search_platforms returns, and the other enabled platform has what its
\* own search found; a disabled platform has no key; analyze_sov and
\* calculate_overall_sov then leave the failed platform out.
C29_FailedSearchLeftOut ==
    /\ pc # "search_platforms" =>
          /\ DOMAIN search_results
               = {p \in Range(SearchedPlatforms) : Enabled(config, p)}
          /\ \A p \in DOMAIN search_results :
                search_results[p]
                  = IF SearchFailed(p) THEN <<>> ELSE web[p].found
    /\ pc \in {"calculate_overall_sov", "analyze_keyword_performance"} =>
          /\ DOMAIN platform_sov = PlatformsWithResults
          /\ \A p \in Range(SearchedPlatforms) :
                SearchFailed(p) => p \notin DOMAIN platform_sov
    /\ (pc = "analyze_keyword_performance" /\ PlatformsWithResults # {}) =>
          /\ overall_sov.platform_count = Cardinality(PlatformsWithResults)
          /\ \A p \in Range(SearchedPlatforms) :
                PlatformsWithResults = {p} =>
                    overall_sov.sov_percentage
                      = platform_sov[p].sov_metrics.weighted_sov

\* both platforms are enabled, the Google search raised and the YouTube
\* search found a result: google holds the empty list and the overall
\* average is over youtube alone
C29_Witness ==
    /\ pc = "analyze_keyword_performance"
    /\ Enabled(config, "google") /\ Enabled(config, "youtube")
    /\ web["google"].raises
    /\ search_results["google"] = <<>>
    /\ Len(search_results["youtube"]) = 1
    /\ DOMAIN platform_sov = {"youtube"}
    /\ overall_sov.platform_count = 1

-----------------------------------------------------------------------------
(* Production mode of the GoogleSearcher (SpecGoogle). *)

\* every result of the list is a mock result
AllDemo(rs) == \A i \in DOMAIN rs : rs[i].mode = "demo"

\* a search on a searcher one of whose requests raised: no request is
\* sent, demo results are returned, production mode stays off
NoRequestAfterRaise ==
    google_searcher.api_raised =>
        /\ google_searcher'.requests = google_searcher.requests
        /\ ~google_searcher'.last.requested
        /\ AllDemo(google_searcher'.returned)
        /\ ~google_searcher'.production_mode

\* after a search: a request that raised has switched production mode
\* off; a search for at least one result returned at least one; an error
\* status or an empty item list gave mock results and left production mode on
AfterSearch ==
    google_searcher.searches > 0 =>
        LET last == google_searcher.last
        IN  /\ (last.requested /\ last.response.raises) =>
                  ~google_searcher.production_mode
            /\ google_searcher.api_raised => ~google_searcher.production_mode
            /\ last.num_results >= 1 => Len(google_searcher.returned) >= 1
            /\ (/\ last.requested
                /\ ~last.response.raises
                /\ (last.response.status_code # 200 \/ last.response.items = <<>>))
                  => /\ AllDemo(google_searcher.returned)
                     /\ google_searcher.production_mode

\* C30: once a request of a search has raised, every later search on the
\* same searcher sends no request and returns demo results; a search for
\* one result or more never returns the empty list; an error status or an
\* empty item list gives mock results without leaving production mode.
C30_ProductionModeOffForGood ==
    /\ []AfterSearch
    /\ [][NoRequestAfterRaise]_vars

\* the first search sent a request that raised; the second, for which the
\* API would have answered with an item, sent none and returned demo results
C30_Witness ==
    /\ google_searcher.searches = 2
    /\ google_searcher.requests = 1
    /\ google_searcher.api_raised
    /\ ~google_searcher.last.requested
    /\ Len(google_searcher.last.response.items) > 0
    /\ Len(google_searcher.returned) > 0
    /\ AllDemo(google_searcher.returned)

=============================================================================
